---------------------------- MODULE Spec2Model ----------------------------
(***************************************************************************)
(* A model of OpenAIAgentExecutor (src/src/executors/openai.ts, first      *)
(* class of the file, lines 29-555) and of the StructuredResponse schemas  *)
(* (src/unnamed/part_000).                                                 *)
(*                                                                         *)
(* Strings are modelled as tuples of one-character strings, so that        *)
(* JSON.parse is a real parser and a string's truthiness (s # <<>>) is     *)
(* visible.  Every execution owns a trace: the ordered list of the calls   *)
(* it makes on its collaborators (event bus, session, tool servers,        *)
(* runtime).  Timestamps and console.log calls are left out.               *)
(***************************************************************************)
EXTENDS Integers, Sequences, FiniteSets, TLC

(***************************************************************************)
(* Bounds of the model.                                                    *)
(***************************************************************************)
\* the number of stream events the runtime delivers in one streaming run
MaxItems == 2
\* the number of tool servers the executor can be configured with
NumServers == 2
\* the number of artifacts in a judge output
MaxArtifacts == 2
\* the number of cancelTask calls
MaxCancels == 2

(***************************************************************************)
(* JSON.parse over character tuples.  The grammar covered: integers        *)
(* without sign, fraction or exponent, strings without escapes, the        *)
(* literals true/false/null, arrays and objects, no white space.           *)
(***************************************************************************)
Digits == {"0", "1", "2"}

DigitVal(c) == CASE c = "0" -> 0 [] c = "1" -> 1 [] c = "2" -> 2

\* a parsed JSON value; every value has the same fields
JV(t, num, str, elems) == [t |-> t, num |-> num, str |-> str, elems |-> elems]

JNull == JV("null", 0, <<>>, <<>>)

JBool(b) == JV("bool", IF b THEN 1 ELSE 0, <<>>, <<>>)

JNum(n) == JV("num", n, <<>>, <<>>)

JStr(s) == JV("str", 0, s, <<>>)

JArr(vs) == JV("arr", 0, <<>>, vs)

JObj(ms) == JV("obj", 0, <<>>, ms)

\* one element of an array (key empty) or one member of an object
Member(k, v) == [key |-> k, val |-> v]

PFail == [ok |-> FALSE, val |-> JNull, next |-> 0]

POk(v, n) == [ok |-> TRUE, val |-> v, next |-> n]

At(s, i) == IF i >= 1 /\ i <= Len(s) THEN s[i] ELSE "EOF"

HasAt(s, i, lit) ==
    /\ i + Len(lit) - 1 <= Len(s)
    /\ \A k \in 1..Len(lit) : s[i + k - 1] = lit[k]

\* the index of the first double quote at or after i, 0 when there is none
RECURSIVE QuoteFrom(_, _)
QuoteFrom(s, i) ==
    IF i > Len(s) THEN 0
    ELSE IF s[i] = "\"" THEN i
    ELSE QuoteFrom(s, i + 1)

ParseString(s, i) ==
    IF At(s, i) # "\"" THEN PFail
    ELSE LET j == QuoteFrom(s, i + 1)
         IN  IF j = 0 THEN PFail ELSE POk(JStr(SubSeq(s, i + 1, j - 1)), j + 1)

\* the digits from i on, read as a number with acc the value read so far
RECURSIVE DigitRun(_, _, _)
DigitRun(s, i, acc) ==
    IF At(s, i) \in Digits THEN DigitRun(s, i + 1, acc * 10 + DigitVal(s[i]))
    ELSE POk(JNum(acc), i)

\* a leading zero ends the number: "01" is not JSON
ParseNumber(s, i) ==
    IF At(s, i) \notin Digits THEN PFail
    ELSE IF s[i] = "0" THEN POk(JNum(0), i + 1)
    ELSE DigitRun(s, i, 0)

\* an object keeps one member per key, the last one written
PutMember(ms, k, v) ==
    IF \E n \in 1..Len(ms) : ms[n].key = k
    THEN [n \in 1..Len(ms) |-> IF ms[n].key = k THEN Member(k, v) ELSE ms[n]]
    ELSE Append(ms, Member(k, v))

RECURSIVE ParseValue(_, _), ParseElems(_, _, _), ParseMembers(_, _, _)
ParseValue(s, i) ==
    LET c == At(s, i)
    IN  IF c = "\"" THEN ParseString(s, i)
        ELSE IF c \in Digits THEN ParseNumber(s, i)
        ELSE IF HasAt(s, i, <<"n", "u", "l", "l">>) THEN POk(JNull, i + 4)
        ELSE IF HasAt(s, i, <<"t", "r", "u", "e">>) THEN POk(JBool(TRUE), i + 4)
        ELSE IF HasAt(s, i, <<"f", "a", "l", "s", "e">>) THEN POk(JBool(FALSE), i + 5)
        ELSE IF c = "[" THEN
            IF At(s, i + 1) = "]" THEN POk(JArr(<<>>), i + 2)
            ELSE ParseElems(s, i + 1, <<>>)
        ELSE IF c = "{" THEN
            IF At(s, i + 1) = "}" THEN POk(JObj(<<>>), i + 2)
            ELSE ParseMembers(s, i + 1, <<>>)
        ELSE PFail

\* the elements of an array from the one read as r on
ElemsFrom(s, r, acc) ==
    IF ~r.ok THEN PFail
    ELSE IF At(s, r.next) = "," THEN ParseElems(s, r.next + 1, Append(acc, Member(<<>>, r.val)))
    ELSE IF At(s, r.next) = "]" THEN POk(JArr(Append(acc, Member(<<>>, r.val))), r.next + 1)
    ELSE PFail

ParseElems(s, i, acc) == ElemsFrom(s, ParseValue(s, i), acc)

\* the members of an object from the one of key k and value read as r on
MembersFrom(s, k, r, acc) ==
    IF ~r.ok THEN PFail
    ELSE IF At(s, r.next) = "," THEN ParseMembers(s, r.next + 1, PutMember(acc, k, r.val))
    ELSE IF At(s, r.next) = "}" THEN POk(JObj(PutMember(acc, k, r.val)), r.next + 1)
    ELSE PFail

\* the member whose key was read as k
ParseMember(s, k, acc) ==
    IF ~k.ok \/ At(s, k.next) # ":" THEN PFail
    ELSE MembersFrom(s, k.val.str, ParseValue(s, k.next + 1), acc)

ParseMembers(s, i, acc) == ParseMember(s, ParseString(s, i), acc)

\* r when it reads the whole of s, a failure otherwise
Whole(s, r) ==
    IF r.ok /\ r.next = Len(s) + 1 THEN [ok |-> TRUE, val |-> r.val]
    ELSE [ok |-> FALSE, val |-> JNull]

\* JSON.parse(s): ok is FALSE where JSON.parse throws a SyntaxError
JSONParse(s) == Whole(s, ParseValue(s, 1))

(***************************************************************************)
(* Identifiers, parts and protocol events.                                 *)
(***************************************************************************)
\* an identifier: <<"native", n>> given by the runtime or the judge,
\* <<"uuid", n>> made by uuidv4(), NoId for an absent (undefined) one
NoId == <<"none", 0>>

\* uuidv4(): the n-th identifier drawn is unlike every other one drawn
Uuid(n) == <<"uuid", n>>

\* item.rawItem.id || uuidv4()
IdOrUuid(id, u) == IF id # NoId THEN id ELSE Uuid(u)

\* the number of uuidv4() calls IdOrUuid makes
UuidUsed(id) == IF id # NoId THEN 0 ELSE 1

\* a message part; every part has the same fields
TextPart(t) ==
    [kind |-> "text", text |-> t, data |-> JNull, bytes |-> <<>>, mimeType |-> <<>>]

DataPart(v) ==
    [kind |-> "data", text |-> <<>>, data |-> v, bytes |-> <<>>, mimeType |-> <<>>]

FilePart(b, m) ==
    [kind |-> "file", text |-> <<>>, data |-> JNull, bytes |-> b, mimeType |-> m]

\* try { data: JSON.parse(s) } catch { text: s }
ParsedOrText(s) ==
    LET r == JSONParse(s) IN IF r.ok THEN DataPart(r.val) ELSE TextPart(s)

\* a protocol event; every event has the same fields
Event(kind, taskId, contextId, state, final) ==
    [kind |-> kind, taskId |-> taskId, contextId |-> contextId,
     state |-> state, final |-> final,
     hasMessage |-> FALSE, messageId |-> <<NoId, NoId>>, parts |-> <<>>,
     mtype |-> "", toolCallId |-> NoId, toolCallName |-> "",
     artifactId |-> NoId, name |-> <<>>, description |-> <<>>, history |-> <<>>]

\* the Task event of execute: state submitted, history [userMessage]
TaskSubmitted(taskId, contextId, userMessage) ==
    [Event("task", taskId, contextId, "submitted", FALSE)
        EXCEPT !.history = <<userMessage>>]

\* a status-update event without a message
StatusEvent(taskId, contextId, state, final) ==
    Event("status-update", taskId, contextId, state, final)

\* a status-update event, state working and not final, carrying a message
MessageEvent(taskId, contextId, messageId, parts, mtype, callId, callName) ==
    [Event("status-update", taskId, contextId, "working", FALSE)
        EXCEPT !.hasMessage = TRUE, !.messageId = messageId, !.parts = parts,
               !.mtype = mtype, !.toolCallId = callId, !.toolCallName = callName]

ArtifactEvent(taskId, contextId, artifactId, name, description, parts) ==
    [Event("artifact-update", taskId, contextId, "", FALSE)
        EXCEPT !.artifactId = artifactId, !.name = name,
               !.description = description, !.parts = parts]

(***************************************************************************)
(* What a handler did: whether it threw, the events it published before    *)
(* returning or throwing, and the number of uuidv4() calls it made.        *)
(***************************************************************************)
Handled(threw, evs, used) == [threw |-> threw, evs |-> evs, used |-> used]

(***************************************************************************)
(* Stream events of the runtime.  Every stream event has the same fields:  *)
(*   type      the event's type ("run_item_stream_event", ...)             *)
(*   itemType  item.type                                                   *)
(*   rawType   item.rawItem.type                                           *)
(*   id        item.rawItem.id (NoId when absent)                          *)
(*   callId    item.rawItem.callId                                         *)
(*   name      item.rawItem.name                                           *)
(*   arguments item.rawItem.arguments (absent is the empty string: both    *)
(*             are falsy)                                                  *)
(*   content   item.rawItem.content, a list of [type, text]                *)
(*   output    item.rawItem.output, [type, text, data, mediaType]          *)
(***************************************************************************)
NoOutput == [type |-> "none", text |-> <<>>, data |-> <<>>, mediaType |-> <<>>]

StreamEvent(type, itemType, rawType, id, callId, name, arguments, content, output) ==
    [type |-> type, itemType |-> itemType, rawType |-> rawType, id |-> id,
     callId |-> callId, name |-> name, arguments |-> arguments,
     content |-> content, output |-> output]

Content(type, text) == [type |-> type, text |-> text]

NoStreamEvent == StreamEvent("none", "", "", NoId, NoId, "", <<>>, <<>>, NoOutput)

\* a variant that takes a text part from every fragment
OutputTextPartsAll(content) == [k \in 1..Len(content) |-> TextPart(content[k].text)]

\* the text parts of the output_text fragments, in order
RECURSIVE OutputTextParts(_)
OutputTextParts(content) ==
    IF content = <<>> THEN <<>>
    ELSE LET rest == OutputTextParts(Tail(content))
         IN  IF Head(content).type = "output_text"
             THEN <<TextPart(Head(content).text)>> \o rest
             ELSE rest

\* a variant without the return on an empty list of parts
HandleMessageOutputItemUnguarded(item, taskId, contextId, u) ==
    Handled(FALSE,
            <<MessageEvent(taskId, contextId, <<IdOrUuid(item.id, u), NoId>>,
                           OutputTextParts(item.content), "", NoId, "")>>,
            UuidUsed(item.id))

HandleMessageOutputItem(item, taskId, contextId, u) ==
    LET messageId == IdOrUuid(item.id, u)
        parts == OutputTextParts(item.content)
    IN  IF Len(parts) = 0 THEN Handled(FALSE, <<>>, UuidUsed(item.id))
        ELSE Handled(FALSE,
                     <<MessageEvent(taskId, contextId, <<messageId, NoId>>, parts,
                                    "", NoId, "")>>,
                     UuidUsed(item.id))

\* a variant that takes only a parsed object for data
ArgumentPartsObjectsOnly(arguments) ==
    IF arguments = <<>> THEN <<>>
    ELSE IF JSONParse(arguments).ok /\ JSONParse(arguments).val.t = "obj"
    THEN <<DataPart(JSONParse(arguments).val)>>
    ELSE <<TextPart(arguments)>>

\* if (rawItem.arguments) { try data: JSON.parse catch text }
ArgumentParts(arguments) ==
    IF arguments # <<>> THEN <<ParsedOrText(arguments)>> ELSE <<>>

\* a variant that throws on every sub-kind it has no event for
HandleToolCallItemThrowsOnUnknown(item, taskId, contextId, u) ==
    IF item.rawType = "function_call" THEN
        Handled(FALSE,
                <<MessageEvent(taskId, contextId, <<item.id, item.callId>>,
                               ArgumentParts(item.arguments), "tool-call",
                               item.callId, item.name)>>,
                0)
    ELSE IF item.rawType = "hosted_tool_call" THEN
        LET toolCallId == IdOrUuid(item.id, u)
        IN  Handled(FALSE,
                    <<MessageEvent(taskId, contextId, <<item.id, toolCallId>>,
                                   ArgumentParts(item.arguments), "tool-call",
                                   toolCallId, item.name)>>,
                    UuidUsed(item.id))
    ELSE Handled(TRUE, <<>>, 0)

HandleToolCallItem(item, taskId, contextId, u) ==
    IF item.rawType = "function_call" THEN
        Handled(FALSE,
                <<MessageEvent(taskId, contextId, <<item.id, item.callId>>,
                               ArgumentParts(item.arguments), "tool-call",
                               item.callId, item.name)>>,
                0)
    ELSE IF item.rawType = "hosted_tool_call" THEN
        LET toolCallId == IdOrUuid(item.id, u)
        IN  Handled(FALSE,
                    <<MessageEvent(taskId, contextId, <<item.id, toolCallId>>,
                                   ArgumentParts(item.arguments), "tool-call",
                                   toolCallId, item.name)>>,
                    UuidUsed(item.id))
    ELSE IF item.rawType = "computer_call" THEN Handled(TRUE, <<>>, 0)
    ELSE Handled(FALSE, <<>>, 0)

\* a variant that takes a text output as text without parsing it
OutputPartsUnparsed(output) ==
    IF output.type = "text" THEN <<TextPart(output.text)>>
    ELSE IF output.type = "image" THEN <<FilePart(output.data, output.mediaType)>>
    ELSE <<>>

\* the parts of a function_call_result's output
OutputParts(output) ==
    IF output.type = "text" THEN <<ParsedOrText(output.text)>>
    ELSE IF output.type = "image" THEN <<FilePart(output.data, output.mediaType)>>
    ELSE <<>>

\* a variant that drops a computer_call_result as it drops an unknown type
HandleToolCallOutputItemSkips(item, taskId, contextId, u) ==
    LET messageId == IdOrUuid(item.id, u)
    IN  IF item.rawType = "function_call_result" THEN
            Handled(FALSE,
                    <<MessageEvent(taskId, contextId, <<messageId, NoId>>,
                                   OutputParts(item.output), "tool-call-result",
                                   item.callId, item.name)>>,
                    UuidUsed(item.id))
        ELSE Handled(FALSE, <<>>, UuidUsed(item.id))

HandleToolCallOutputItem(item, taskId, contextId, u) ==
    LET messageId == IdOrUuid(item.id, u)
    IN  IF item.rawType = "function_call_result" THEN
            Handled(FALSE,
                    <<MessageEvent(taskId, contextId, <<messageId, NoId>>,
                                   OutputParts(item.output), "tool-call-result",
                                   item.callId, item.name)>>,
                    UuidUsed(item.id))
        ELSE IF item.rawType = "computer_call_result" THEN
            Handled(TRUE, <<>>, UuidUsed(item.id))
        ELSE Handled(FALSE, <<>>, UuidUsed(item.id))

\* the body of the for-await loop of execute, for one stream event
HandleStreamEvent(ev, taskId, contextId, u) ==
    IF ev.type = "run_item_stream_event" THEN
        IF ev.itemType = "message_output_item"
        THEN HandleMessageOutputItem(ev, taskId, contextId, u)
        ELSE IF ev.itemType = "tool_call_item"
        THEN HandleToolCallItem(ev, taskId, contextId, u)
        ELSE IF ev.itemType = "tool_call_output_item"
        THEN HandleToolCallOutputItem(ev, taskId, contextId, u)
        ELSE Handled(FALSE, <<>>, 0)
    ELSE Handled(FALSE, <<>>, 0)

(***************************************************************************)
(* The judge's output and the judge driver.                                *)
(***************************************************************************)
\* TaskStateSchema: the states the judge can assign
TaskStateSchema == {"input-required", "completed", "failed", "rejected", "auth-required"}

\* an artifact of the judge: name, description and a part [kind, text, data]
Artifact(name, description, kind, text, data) ==
    [name |-> name, description |-> description,
     part |-> [kind |-> kind, text |-> text, data |-> data]]

\* result.finalOutput: isNull when the judge produced no output; artifactsKind
\* is "absent" (undefined), "null" or "list"
FinalOutput(isNull, task_state, artifactsKind, artifacts) ==
    [isNull |-> isNull, task_state |-> task_state,
     artifactsKind |-> artifactsKind, artifacts |-> artifacts]

NoFinalOutput == FinalOutput(TRUE, "", "absent", <<>>)

\* a variant that draws one identifier for all the artifacts of a response
RECURSIVE ArtifactLoopOneId(_, _, _, _, _)
ArtifactLoopOneId(artifacts, k, taskId, contextId, u) ==
    IF k > Len(artifacts) THEN Handled(FALSE, <<>>, 0)
    ELSE LET a == artifacts[k]
             parts == IF a.part.kind = "text"
                      THEN <<TextPart(a.part.text)>>
                      ELSE <<ParsedOrText(a.part.data)>>
             ev == ArtifactEvent(taskId, contextId, Uuid(u), a.name, a.description, parts)
             rest == ArtifactLoopOneId(artifacts, k + 1, taskId, contextId, u)
         IN  Handled(rest.threw, <<ev>> \o rest.evs, 1)

\* a variant without the catch: data that is no JSON throws
RECURSIVE ArtifactLoopUncaught(_, _, _, _, _)
ArtifactLoopUncaught(artifacts, k, taskId, contextId, u) ==
    IF k > Len(artifacts) THEN Handled(FALSE, <<>>, 0)
    ELSE LET a == artifacts[k]
         IN  IF a.part.kind \notin {"text", "data"} THEN Handled(TRUE, <<>>, 0)
             ELSE IF a.part.kind = "data" /\ ~JSONParse(a.part.data).ok
             THEN Handled(TRUE, <<>>, 0)
             ELSE LET parts == IF a.part.kind = "text"
                               THEN <<TextPart(a.part.text)>>
                               ELSE <<ParsedOrText(a.part.data)>>
                      ev == ArtifactEvent(taskId, contextId, Uuid(u), a.name,
                                          a.description, parts)
                      rest == ArtifactLoopUncaught(artifacts, k + 1, taskId, contextId,
                                                   u + 1)
                  IN  Handled(rest.threw, <<ev>> \o rest.evs, 1 + rest.used)

\* the loop of handleStructuredResponseArtifacts from the k-th artifact on,
\* u the next uuid
RECURSIVE ArtifactLoop(_, _, _, _, _)
ArtifactLoop(artifacts, k, taskId, contextId, u) ==
    IF k > Len(artifacts) THEN Handled(FALSE, <<>>, 0)
    ELSE LET a == artifacts[k]
         IN  IF a.part.kind \notin {"text", "data"} THEN Handled(TRUE, <<>>, 0)
             ELSE LET parts == IF a.part.kind = "text"
                               THEN <<TextPart(a.part.text)>>
                               ELSE <<ParsedOrText(a.part.data)>>
                      ev == ArtifactEvent(taskId, contextId, Uuid(u), a.name,
                                          a.description, parts)
                      rest == ArtifactLoop(artifacts, k + 1, taskId, contextId, u + 1)
                  IN  Handled(rest.threw, <<ev>> \o rest.evs, 1 + rest.used)

HandleStructuredResponseArtifacts(out, taskId, contextId, u) ==
    IF out.artifactsKind # "list" THEN Handled(FALSE, <<>>, 0)
    ELSE ArtifactLoop(out.artifacts, 1, taskId, contextId, u)

\* a variant that handles the artifacts whatever the task state
ArtifactsHandledAnyState(out) == out.artifactsKind = "list"

\* whether handleStructuredResponse calls handleStructuredResponseArtifacts:
\* task_state === "completed" && artifacts (an empty list is truthy)
ArtifactsHandled(out) == out.task_state = "completed" /\ out.artifactsKind = "list"

\* a variant that takes a judge without output for a fault
HandleStructuredResponseNullThrows(out, taskId, contextId, u) ==
    IF out.isNull THEN Handled(TRUE, <<>>, 0)
    ELSE LET arts == IF ArtifactsHandled(out)
                     THEN HandleStructuredResponseArtifacts(out, taskId, contextId, u)
                     ELSE Handled(FALSE, <<>>, 0)
         IN  IF arts.threw THEN arts
             ELSE Handled(FALSE,
                          arts.evs \o
                            <<StatusEvent(taskId, contextId, out.task_state, TRUE)>>,
                          arts.used)

\* a variant that publishes the final status before the artifacts
HandleStructuredResponseFinalFirst(out, taskId, contextId, u) ==
    IF out.isNull THEN
        Handled(FALSE, <<StatusEvent(taskId, contextId, "unknown", TRUE)>>, 0)
    ELSE LET arts == IF ArtifactsHandled(out)
                     THEN HandleStructuredResponseArtifacts(out, taskId, contextId, u)
                     ELSE Handled(FALSE, <<>>, 0)
         IN  Handled(arts.threw,
                     <<StatusEvent(taskId, contextId, out.task_state, TRUE)>> \o arts.evs,
                     arts.used)

\* a variant whose last status is not marked final
HandleStructuredResponseNotFinal(out, taskId, contextId, u) ==
    IF out.isNull THEN
        Handled(FALSE, <<StatusEvent(taskId, contextId, "unknown", FALSE)>>, 0)
    ELSE LET arts == IF ArtifactsHandled(out)
                     THEN HandleStructuredResponseArtifacts(out, taskId, contextId, u)
                     ELSE Handled(FALSE, <<>>, 0)
         IN  IF arts.threw THEN arts
             ELSE Handled(FALSE,
                          arts.evs \o
                            <<StatusEvent(taskId, contextId, out.task_state, FALSE)>>,
                          arts.used)

\* a variant that throws on a completed output without an artifact
HandleStructuredResponseValidated(out, taskId, contextId, u) ==
    IF out.isNull THEN
        Handled(FALSE, <<StatusEvent(taskId, contextId, "unknown", TRUE)>>, 0)
    ELSE IF out.task_state = "completed"
            /\ (out.artifactsKind # "list" \/ out.artifacts = <<>>)
    THEN Handled(TRUE, <<>>, 0)
    ELSE LET arts == IF ArtifactsHandled(out)
                     THEN HandleStructuredResponseArtifacts(out, taskId, contextId, u)
                     ELSE Handled(FALSE, <<>>, 0)
         IN  IF arts.threw THEN arts
             ELSE Handled(FALSE,
                          arts.evs \o
                            <<StatusEvent(taskId, contextId, out.task_state, TRUE)>>,
                          arts.used)

\* handleStructuredResponse after the judge run returned finalOutput out
HandleStructuredResponse(out, taskId, contextId, u) ==
    IF out.isNull THEN
        Handled(FALSE, <<StatusEvent(taskId, contextId, "unknown", TRUE)>>, 0)
    ELSE LET arts == IF ArtifactsHandled(out)
                     THEN HandleStructuredResponseArtifacts(out, taskId, contextId, u)
                     ELSE Handled(FALSE, <<>>, 0)
         IN  IF arts.threw THEN arts
             ELSE Handled(FALSE,
                          arts.evs \o
                            <<StatusEvent(taskId, contextId, out.task_state, TRUE)>>,
                          arts.used)

(***************************************************************************)
(* StructuredResponseWithArtifactsValidationSchema: StructuredResponse-     *)
(* Schema with the refinement on artifacts.  The executor does not use it; *)
(* it is applied to a value by safeParse.                                  *)
(***************************************************************************)
\* StructuredResponseSchema accepts v: an object whose task_state is of
\* TaskStateSchema and whose artifacts, when a list, hold text or data parts
StructuredResponseSchema(v) ==
    /\ ~v.isNull
    /\ v.task_state \in TaskStateSchema
    /\ v.artifactsKind = "list" =>
          \A k \in 1..Len(v.artifacts) : v.artifacts[k].part.kind \in {"text", "data"}

\* a variant whose second check tests only that artifacts is there
SuperRefineTruthyOnly(data) ==
    (IF data.task_state # "completed" /\ data.artifactsKind = "list"
        /\ Len(data.artifacts) > 0
     THEN {"task_state is not completed, artifacts should not be provided."}
     ELSE {})
    \cup
    (IF data.task_state = "completed" /\ data.artifactsKind # "list"
     THEN {"task_state is completed, artifacts must contain at least one item."}
     ELSE {})

\* the issues the refinement adds for data (the messages without their
\* quotation marks)
SuperRefine(data) ==
    (IF data.task_state # "completed" /\ data.artifactsKind = "list"
        /\ Len(data.artifacts) > 0
     THEN {"task_state is not completed, artifacts should not be provided."}
     ELSE {})
    \cup
    (IF data.task_state = "completed"
        /\ (data.artifactsKind # "list" \/ Len(data.artifacts) = 0)
     THEN {"task_state is completed, artifacts must contain at least one item."}
     ELSE {})

\* safeParse(v): the refinement runs on a value the schema accepts
StructuredResponseWithArtifactsValidationSchema(v) ==
    IF ~StructuredResponseSchema(v) THEN [success |-> FALSE, issues |-> {"invalid"}]
    ELSE [success |-> SuperRefine(v) = {}, issues |-> SuperRefine(v)]

\* no value has been validated
NotParsed ==
    [done |-> FALSE, value |-> NoFinalOutput, success |-> FALSE, issues |-> {}]

(***************************************************************************)
(* The executor's state.                                                   *)
(*                                                                         *)
(* Constructor options:                                                    *)
(*   sessionProvider  "none" (not configured), "sync" (returns a Session)  *)
(*                    or "async" (returns a Promise of a Session)          *)
(*   hasMcp           whether options.mcpServers was given                 *)
(*   mcpServers       the configured servers, in array order               *)
(* Fields and collaborators:                                               *)
(*   sessions         this.sessions: context id -> Session instance, 0     *)
(*                    where the map has no entry                           *)
(*   store            the log of every Session instance created so far     *)
(*   connected        whether a tool server holds a connection             *)
(*   uuids            the number of uuidv4() calls made so far             *)
(*   ex               the executions: for each, its position pc, its       *)
(*                    request req, its local variables session, input and  *)
(*                    userMessages, the runtime's result.history, the      *)
(*                    number of stream events delivered, the judge's       *)
(*                    finalOutput (once judged), the state of its          *)
(*                    connect() and close() promises, the step of the try  *)
(*                    block that faulted, the result of execute            *)
(*                    ("returned" or the fault it throws), and its trace   *)
(* Validation:                                                             *)
(*   parsed           the value last validated and safeParse's outcome     *)
(* Cancellation:                                                           *)
(*   cancels          the cancelTask calls made so far: for each, its task *)
(*                    id and the calls it made on its event bus            *)
(***************************************************************************)
VARIABLES sessionProvider, hasMcp, mcpServers, sessions, store, connected, uuids, ex,
          parsed, cancels

vars ==
    <<sessionProvider, hasMcp, mcpServers, sessions, store, connected, uuids, ex, parsed,
      cancels>>

\* what no step of execute changes: the constructor's options, the outcome
\* of a validation, and the record of the cancelTask calls
config == <<sessionProvider, hasMcp, mcpServers, parsed, cancels>>

Execs == {1, 2}

Contexts == {"ctx1", "ctx2"}

Servers == 1..NumServers

\* a conversation item: a user message or an item the runtime generated
Item(kind, content) == [kind |-> kind, content |-> content]

\* user(p.text)
User(text) == Item("user", text)

\* a part of the incoming user message
MsgPart(kind, text) == [kind |-> kind, text |-> text]

\* an entry of an execution's trace: a call on a collaborator
NoEvent == Event("none", 0, "", "", FALSE)

Call(op) ==
    [op |-> op, ev |-> NoEvent, sev |-> NoStreamEvent, server |-> 0, items |-> <<>>]

Publish(ev) == [Call("publish") EXCEPT !.ev = ev]

ServerCall(op, s) == [Call(op) EXCEPT !.server = s]

ItemsCall(op, items) == [Call(op) EXCEPT !.items = items]

\* the for-await loop receives stream event sev from the runtime
Received(sev) == [Call("next") EXCEPT !.sev = sev]

\* eventBus.publish for each event of a list, in order
Publishes(evs) == [k \in 1..Len(evs) |-> Publish(evs[k])]

NoRequest == [contextId |-> "", taskId |-> 0, userMessage |-> <<>>, task |-> FALSE]

Idle ==
    [pc |-> "idle", req |-> NoRequest, session |-> 0, userMessages |-> <<>>,
     sessionHistory |-> <<>>, input |-> <<>>, history |-> <<>>, delivered |-> 0,
     judged |-> FALSE, finalOutput |-> NoFinalOutput,
     connSt |-> [s \in Servers |-> "none"], closeSt |-> [s \in Servers |-> "none"],
     fault |-> "", result |-> "", trace |-> <<>>]

\* the configurations of the constructor: no server list, or a list of the
\* first n servers (an empty list when n = 0)
Init ==
    /\ sessionProvider \in {"none", "sync", "async"}
    /\ hasMcp \in BOOLEAN
    /\ mcpServers \in {[k \in 1..n |-> k] : n \in 0..NumServers}
    /\ ~hasMcp => mcpServers = <<>>
    /\ sessions = [c \in Contexts |-> 0]
    /\ store = <<>>
    /\ connected = [s \in Servers |-> FALSE]
    /\ uuids = 0
    /\ ex = [e \in Execs |-> Idle]
    /\ parsed = NotParsed
    /\ cancels = <<>>

Configured == {mcpServers[k] : k \in 1..Len(mcpServers)}

(***************************************************************************)
(* Steps of execute.  A step is the code between two awaits.               *)
(***************************************************************************)
\* a variant that makes a user item of every part, whatever its kind
UserMessagesOfAllParts(parts) == [k \in 1..Len(parts) |-> User(parts[k].text)]

\* userMessage.parts.map(p => p.kind === "text" ? user(p.text) : null).filter(...)
RECURSIVE UserMessages(_)
UserMessages(parts) ==
    IF parts = <<>> THEN <<>>
    ELSE IF Head(parts).kind = "text"
         THEN <<User(Head(parts).text)>> \o UserMessages(Tail(parts))
         ELSE UserMessages(Tail(parts))

\* this.mcpServers.map(server => server.close().catch(...))
CloseCalls == [k \in 1..Len(mcpServers) |-> ServerCall("close", mcpServers[k])]

\* this.mcpServers.map(server => server.connect())
ConnectCalls == [k \in 1..Len(mcpServers) |-> ServerCall("connect", mcpServers[k])]

\* a variant without the finally block: the servers are closed at the end of
\* the try block only
FinallyOnSuccessOnly(x, fault) ==
    IF hasMcp /\ mcpServers # <<>> /\ fault = ""
    THEN [x EXCEPT !.fault = fault, !.pc = "closing",
                   !.closeSt = [s \in Servers |->
                                   IF s \in Configured THEN "pending" ELSE "none"],
                   !.trace = @ \o CloseCalls]
    ELSE [x EXCEPT !.fault = fault, !.pc = "done",
                   !.result = IF fault = "" THEN "returned" ELSE fault]

\* a variant that publishes a final failed status when the try block faulted
FinallyPublishesFailed(x, fault) ==
    LET y == IF fault = "" THEN x
             ELSE [x EXCEPT !.trace =
                      Append(@, Publish(StatusEvent(x.req.taskId, x.req.contextId,
                                                    "failed", TRUE)))]
    IN  IF hasMcp /\ mcpServers # <<>>
        THEN [y EXCEPT !.fault = fault, !.pc = "closing",
                       !.closeSt = [s \in Servers |->
                                       IF s \in Configured THEN "pending" ELSE "none"],
                       !.trace = @ \o CloseCalls]
        ELSE [y EXCEPT !.fault = fault, !.pc = "done",
                       !.result = IF fault = "" THEN "returned" ELSE fault]

\* the finally block of execute, entered from execution record x with the
\* given fault ("" when the try block ended normally): close() is called on
\* every configured server; without servers execute is over, and returns or
\* throws the fault
Finally(x, fault) ==
    IF hasMcp /\ mcpServers # <<>>
    THEN [x EXCEPT !.fault = fault, !.pc = "closing",
                   !.closeSt = [s \in Servers |->
                                   IF s \in Configured THEN "pending" ELSE "none"],
                   !.trace = @ \o CloseCalls]
    ELSE [x EXCEPT !.fault = fault, !.pc = "done",
                   !.result = IF fault = "" THEN "returned" ELSE fault]

\* run(this.agent, input, {stream: true}) is called
CallRun(x) ==
    [x EXCEPT !.pc = "awaitRun", !.trace = Append(@, ItemsCall("run", x.input))]

\* the code after the input is built: connect the servers, or go on to the run
AfterInput(x) ==
    IF hasMcp /\ mcpServers # <<>>
    THEN [x EXCEPT !.pc = "connecting",
                   !.connSt = [s \in Servers |->
                                  IF s \in Configured THEN "pending" ELSE "none"],
                   !.trace = @ \o ConnectCalls]
    ELSE CallRun(x)

\* a variant that publishes the Task whether or not the caller supplied one
ExecuteResubmits(e, contextId, task, userMessage) ==
    /\ ex[e].pc = "idle"
    /\ LET submitted == <<Publish(TaskSubmitted(e, contextId, userMessage))>>
           working == <<Publish(StatusEvent(e, contextId, "working", FALSE))>>
       IN  ex' = [ex EXCEPT ![e] =
                    [@ EXCEPT !.pc = "getSession",
                              !.req = [contextId |-> contextId, taskId |-> e,
                                       userMessage |-> userMessage, task |-> task],
                              !.trace = submitted \o working]]
    /\ UNCHANGED <<config, sessions, store, connected, uuids>>

\* execute up to withTrace: the submitted task (when the caller supplied
\* none) and the working status are published
Execute(e, contextId, task, userMessage) ==
    /\ ex[e].pc = "idle"
    /\ LET submitted == IF ~task
                        THEN <<Publish(TaskSubmitted(e, contextId, userMessage))>>
                        ELSE <<>>
           working == <<Publish(StatusEvent(e, contextId, "working", FALSE))>>
       IN  ex' = [ex EXCEPT ![e] =
                    [@ EXCEPT !.pc = "getSession",
                              !.req = [contextId |-> contextId, taskId |-> e,
                                       userMessage |-> userMessage, task |-> task],
                              !.trace = submitted \o working]]
    /\ UNCHANGED <<config, sessions, store, connected, uuids>>

\* a variant of the cache lookup that never finds an entry
SessionsGetMisses(c) == 0

\* this.sessions.get(contextId): the cached Session, 0 for undefined
SessionsGet(c) == sessions[c]

\* const session = await this.getSession(contextId), up to the await inside
\* getSession when the provider returns a Promise.  Without a session the
\* input is the user messages.  ok: whether the provider call returns; log:
\* the items the Session it returns holds already (a persistent backend).
GetSession(e, ok, log) ==
    /\ ex[e].pc = "getSession"
    /\ LET x == [ex[e] EXCEPT !.userMessages = UserMessages(ex[e].req.userMessage)]
           c == x.req.contextId
       IN  IF sessionProvider = "none" THEN
               /\ ok /\ log = <<>>
               /\ ex' = [ex EXCEPT ![e] =
                           AfterInput([x EXCEPT !.input = x.userMessages])]
               /\ UNCHANGED <<sessions, store>>
           ELSE IF SessionsGet(c) # 0 THEN
               /\ ok /\ log = <<>>
               /\ ex' = [ex EXCEPT ![e] =
                           [x EXCEPT !.session = SessionsGet(c), !.pc = "getItems",
                                     !.trace = Append(@, Call("getItems"))]]
               /\ UNCHANGED <<sessions, store>>
           ELSE LET called == [x EXCEPT !.trace = Append(@, Call("provider"))]
                IN  IF ~ok THEN
                        /\ log = <<>>
                        /\ ex' = [ex EXCEPT ![e] = Finally(called, "session")]
                        /\ UNCHANGED <<sessions, store>>
                    ELSE IF sessionProvider = "sync" THEN
                        /\ store' = Append(store, log)
                        /\ sessions' = [sessions EXCEPT ![c] = Len(store) + 1]
                        /\ ex' = [ex EXCEPT ![e] =
                                    [called EXCEPT !.session = Len(store) + 1,
                                                   !.pc = "getItems",
                                                   !.trace = Append(@, Call("getItems"))]]
                    ELSE
                        /\ log = <<>>
                        /\ ex' = [ex EXCEPT ![e] = [called EXCEPT !.pc = "awaitProvider"]]
                        /\ UNCHANGED <<sessions, store>>
    /\ UNCHANGED <<config, connected, uuids>>

\* the provider's Promise settles: this.sessions.set(contextId, session)
ProviderSettle(e, ok, log) ==
    /\ ex[e].pc = "awaitProvider"
    /\ IF ok THEN
           /\ store' = Append(store, log)
           /\ sessions' = [sessions EXCEPT ![ex[e].req.contextId] = Len(store) + 1]
           /\ ex' = [ex EXCEPT ![e] =
                       [@ EXCEPT !.session = Len(store) + 1, !.pc = "getItems",
                                 !.trace = Append(@, Call("getItems"))]]
       ELSE
           /\ log = <<>>
           /\ ex' = [ex EXCEPT ![e] = Finally(@, "session")]
           /\ UNCHANGED <<sessions, store>>
    /\ UNCHANGED <<config, connected, uuids>>

\* await session.getItems() settles: input = [...sessionHistory, ...userMessages]
GetItems(e, ok) ==
    /\ ex[e].pc = "getItems"
    /\ ex' = [ex EXCEPT ![e] =
                IF ok
                THEN AfterInput([@ EXCEPT !.sessionHistory = store[ex[e].session],
                                          !.input = store[ex[e].session]
                                                         \o ex[e].userMessages])
                ELSE Finally(@, "getItems")]
    /\ UNCHANGED <<config, sessions, store, connected, uuids>>

\* a variant that waits for every connect() to settle and goes on to the run
\* whatever the outcomes
AwaitConnectAllSettled(x, ok) ==
    IF x.pc # "connecting" THEN x
    ELSE IF \A t \in Configured : x.connSt[t] # "pending" THEN CallRun(x)
    ELSE x

\* a variant that goes on to the run as soon as one connect() has succeeded
AwaitConnectFirst(x, ok) ==
    IF x.pc # "connecting" THEN x
    ELSE IF ~ok THEN Finally(x, "connect")
    ELSE CallRun(x)

\* await Promise.all(connects) in execution record x, after one connect()
\* settled (ok: it succeeded): Promise.all rejects with the first failure
\* and resolves when every connect() has succeeded
AwaitConnect(x, ok) ==
    IF x.pc # "connecting" THEN x
    ELSE IF ~ok THEN Finally(x, "connect")
    ELSE IF \A t \in Configured : x.connSt[t] = "ok" THEN CallRun(x)
    ELSE x

\* a connect() started by execution e settles; a connect() still in flight
\* when Promise.all rejected settles later
ConnectSettle(e, s, ok) ==
    /\ ex[e].connSt[s] = "pending"
    /\ connected' = [connected EXCEPT ![s] = IF ok THEN TRUE ELSE @]
    /\ ex' = [ex EXCEPT ![e] =
                AwaitConnect([@ EXCEPT !.connSt[s] = IF ok THEN "ok" ELSE "failed"], ok)]
    /\ UNCHANGED <<config, sessions, store, uuids>>

\* await run(this.agent, input, {stream: true}) settles
RunStarted(e, ok) ==
    /\ ex[e].pc = "awaitRun"
    /\ ex' = [ex EXCEPT ![e] =
                IF ok THEN [@ EXCEPT !.pc = "stream", !.history = ex[e].input]
                ELSE Finally(@, "run")]
    /\ UNCHANGED <<config, sessions, store, connected, uuids>>

\* a variant that publishes the translated events ahead of everything
\* published so far
ConsumeUnordered(tr, ev, evs) == Publishes(evs) \o Append(tr, Received(ev))

\* the for-await loop takes stream event ev from the runtime and the handler
\* publishes evs before the loop asks for the next one
Consume(tr, ev, evs) == Append(tr, Received(ev)) \o Publishes(evs)

\* the runtime delivers a stream event and the loop body handles it; a run
\* item is part of result.history
StreamNext(e, ev) ==
    /\ ex[e].pc = "stream"
    /\ ex[e].delivered < MaxItems
    /\ LET h == HandleStreamEvent(ev, ex[e].req.taskId, ex[e].req.contextId, uuids + 1)
           x == [ex[e] EXCEPT !.delivered = @ + 1,
                              !.history = IF ev.type = "run_item_stream_event"
                                          THEN Append(@, Item(ev.itemType, <<ev.rawType>>))
                                          ELSE @,
                              !.trace = Consume(@, ev, h.evs)]
       IN  /\ uuids' = uuids + h.used
           /\ ex' = [ex EXCEPT ![e] = IF h.threw THEN Finally(x, "translate") ELSE x]
    /\ UNCHANGED <<config, sessions, store, connected>>

\* a variant that saves the user items to the Session when the stream throws
StreamFaultSavesInput(e) ==
    /\ ex[e].pc = "stream"
    /\ IF ex[e].session # 0
       THEN /\ store' = [store EXCEPT ![ex[e].session] = @ \o ex[e].userMessages]
            /\ ex' = [ex EXCEPT ![e] =
                        Finally([@ EXCEPT !.trace =
                                    Append(@, ItemsCall("addItems", ex[e].userMessages))],
                                "stream")]
       ELSE /\ ex' = [ex EXCEPT ![e] = Finally(@, "stream")]
            /\ UNCHANGED store
    /\ UNCHANGED <<config, sessions, connected, uuids>>

\* the stream throws (a fault of the runtime)
StreamFault(e) ==
    /\ ex[e].pc = "stream"
    /\ ex' = [ex EXCEPT ![e] = Finally(@, "stream")]
    /\ UNCHANGED <<config, sessions, store, connected, uuids>>

\* the stream ends: await result.completed
StreamEnd(e) ==
    /\ ex[e].pc = "stream"
    /\ ex' = [ex EXCEPT ![e].pc = "awaitCompleted"]
    /\ UNCHANGED <<config, sessions, store, connected, uuids>>

\* the items execute hands to session.addItems
NewItems(x) == SubSeq(x.history, Len(x.input) + 1, Len(x.history))

\* a variant that leaves the user messages out when the run produced items
PersistedNewItemsOnly(x) ==
    IF Len(NewItems(x)) > 0 THEN NewItems(x) ELSE x.userMessages

Persisted(x) ==
    IF Len(NewItems(x)) > 0 THEN x.userMessages \o NewItems(x) ELSE x.userMessages

\* run(this.taskAgent, history) is called
CallJudge(x) ==
    [x EXCEPT !.pc = "awaitJudge", !.trace = Append(@, ItemsCall("judge", x.history))]

\* a variant that persists the turn whether or not there is a session
CompletedAlwaysPersists(e, ok) ==
    /\ ex[e].pc = "awaitCompleted"
    /\ ex' = [ex EXCEPT ![e] =
                IF ~ok THEN Finally(@, "completed")
                ELSE [@ EXCEPT !.pc = "awaitAddItems",
                               !.trace = Append(@, ItemsCall("addItems", Persisted(ex[e])))]]
    /\ UNCHANGED <<config, sessions, store, connected, uuids>>

\* a variant that calls the judge as soon as the run completed, before the
\* turn is persisted
CompletedJudgesFirst(e, ok) ==
    /\ ex[e].pc = "awaitCompleted"
    /\ ex' = [ex EXCEPT ![e] = IF ~ok THEN Finally(@, "completed") ELSE CallJudge(@)]
    /\ UNCHANGED <<config, sessions, store, connected, uuids>>

\* result.completed settles: with a session addItems is called, else the judge
Completed(e, ok) ==
    /\ ex[e].pc = "awaitCompleted"
    /\ ex' = [ex EXCEPT ![e] =
                IF ~ok THEN Finally(@, "completed")
                ELSE IF @.session # 0
                THEN [@ EXCEPT !.pc = "awaitAddItems",
                               !.trace = Append(@, ItemsCall("addItems", Persisted(ex[e])))]
                ELSE CallJudge(@)]
    /\ UNCHANGED <<config, sessions, store, connected, uuids>>

\* a variant whose Session is written as a whole: the log becomes the
\* history the execution read followed by its turn
AddItemsOverwrites(e, ok) ==
    /\ ex[e].pc = "awaitAddItems"
    /\ IF ok THEN
           /\ store' = [store EXCEPT ![ex[e].session] =
                            ex[e].sessionHistory \o Persisted(ex[e])]
           /\ ex' = [ex EXCEPT ![e] = CallJudge(@)]
       ELSE
           /\ ex' = [ex EXCEPT ![e] = Finally(@, "addItems")]
           /\ UNCHANGED store
    /\ UNCHANGED <<config, sessions, connected, uuids>>

\* session.addItems settles
AddItems(e, ok) ==
    /\ ex[e].pc = "awaitAddItems"
    /\ IF ok THEN
           /\ store' = [store EXCEPT ![ex[e].session] = @ \o Persisted(ex[e])]
           /\ ex' = [ex EXCEPT ![e] = CallJudge(@)]
       ELSE
           /\ ex' = [ex EXCEPT ![e] = Finally(@, "addItems")]
           /\ UNCHANGED store
    /\ UNCHANGED <<config, sessions, connected, uuids>>

\* the judge run returns finalOutput out and handleStructuredResponse
\* publishes the artifacts and the final status
JudgeReturn(e, out) ==
    /\ ex[e].pc = "awaitJudge"
    /\ LET h == HandleStructuredResponse(out, ex[e].req.taskId, ex[e].req.contextId,
                                         uuids + 1)
           x == [ex[e] EXCEPT !.judged = TRUE, !.finalOutput = out,
                              !.trace = @ \o Publishes(h.evs)]
       IN  /\ uuids' = uuids + h.used
           /\ ex' = [ex EXCEPT ![e] =
                       IF h.threw THEN Finally(x, "artifacts")
                       ELSE [x EXCEPT !.pc = "finish"]]
    /\ UNCHANGED <<config, sessions, store, connected>>

\* the judge run fails
JudgeFault(e) ==
    /\ ex[e].pc = "awaitJudge"
    /\ ex' = [ex EXCEPT ![e] = Finally(@, "judge")]
    /\ UNCHANGED <<config, sessions, store, connected, uuids>>

\* eventBus.finished(), which ends the try block
Finished(e, ok) ==
    /\ ex[e].pc = "finish"
    /\ ex' = [ex EXCEPT ![e] =
                Finally([@ EXCEPT !.trace = Append(@, Call("finished"))],
                        IF ok THEN "" ELSE "finished")]
    /\ UNCHANGED <<config, sessions, store, connected, uuids>>

\* a variant without the catch on close(): a failed close() rejects
\* closeMCPServers and replaces the outcome of the try block
CloseOutcomeUncaught(x) ==
    IF \E s \in Configured : x.closeSt[s] = "failed" THEN "close"
    ELSE IF x.fault = "" THEN "returned" ELSE x.fault

\* what execute does once every close() has settled: each close() carries its
\* own catch, so closeMCPServers resolves and the try block's outcome stands
CloseOutcome(x) == IF x.fault = "" THEN "returned" ELSE x.fault

\* a variant that waits until every close() has succeeded
CloseSettleAwaitsSuccess(e, s, ok) ==
    /\ ex[e].pc = "closing"
    /\ ex[e].closeSt[s] = "pending"
    /\ connected' = [connected EXCEPT ![s] = IF ok THEN FALSE ELSE @]
    /\ LET x == [ex[e] EXCEPT !.closeSt[s] = IF ok THEN "closed" ELSE "failed"]
       IN  ex' = [ex EXCEPT ![e] =
                    IF \A t \in Configured : x.closeSt[t] = "closed"
                    THEN [x EXCEPT !.pc = "done", !.result = CloseOutcome(x)]
                    ELSE x]
    /\ UNCHANGED <<config, sessions, store, uuids>>

\* a close() of closeMCPServers settles; a failure is caught and logged.
\* When all have settled execute returns, or throws the fault of the try block.
CloseSettle(e, s, ok) ==
    /\ ex[e].pc = "closing"
    /\ ex[e].closeSt[s] = "pending"
    /\ connected' = [connected EXCEPT ![s] = IF ok THEN FALSE ELSE @]
    /\ LET x == [ex[e] EXCEPT !.closeSt[s] = IF ok THEN "closed" ELSE "failed"]
       IN  ex' = [ex EXCEPT ![e] =
                    IF \A t \in Configured : x.closeSt[t] # "pending"
                    THEN [x EXCEPT !.pc = "done", !.result = CloseOutcome(x)]
                    ELSE x]
    /\ UNCHANGED <<config, sessions, store, uuids>>

\* a cancelTask call: its task id and the calls it made on its event bus
Cancel(taskId, calls) == [taskId |-> taskId, calls |-> calls]

\* a variant that publishes a final canceled status before finished()
CancelTaskPublishesCanceled(taskId) ==
    /\ Len(cancels) < MaxCancels
    /\ cancels' = Append(cancels,
                         Cancel(taskId, <<Publish(StatusEvent(taskId, "", "canceled", TRUE)),
                                          Call("finished")>>))
    /\ UNCHANGED <<sessionProvider, hasMcp, mcpServers, sessions, store, connected,
                   uuids, ex, parsed>>

\* cancelTask(taskId, eventBus): eventBus.finished()
CancelTask(taskId) ==
    /\ Len(cancels) < MaxCancels
    /\ cancels' = Append(cancels, Cancel(taskId, <<Call("finished")>>))
    /\ UNCHANGED <<sessionProvider, hasMcp, mcpServers, sessions, store, connected,
                   uuids, ex, parsed>>

(***************************************************************************)
(* The requests, stream events and judge outputs the executions are run    *)
(* on: one of every kind the orchestration distinguishes.                  *)
(***************************************************************************)
Native(n) == <<"native", n>>

CoreUserMessages ==
    { <<MsgPart("file", <<>>), MsgPart("text", <<"b">>), MsgPart("text", <<"c">>)>> }

MessageItem(id, content) ==
    StreamEvent("run_item_stream_event", "message_output_item", "message", id,
                NoId, "", <<>>, content, NoOutput)

ToolCallItem(rawType, id, callId, name, arguments) ==
    StreamEvent("run_item_stream_event", "tool_call_item", rawType, id,
                callId, name, arguments, <<>>, NoOutput)

ToolCallOutputItem(rawType, id, callId, name, output) ==
    StreamEvent("run_item_stream_event", "tool_call_output_item", rawType, id,
                callId, name, <<>>, <<>>, output)

OtherStreamEvent(type) ==
    StreamEvent(type, "", "", NoId, NoId, "", <<>>, <<>>, NoOutput)

CoreStreamEvents ==
    { MessageItem(Native(1), <<Content("output_text", <<"o", "k">>)>>),
      ToolCallItem("function_call", Native(2), Native(3), "get_weather", <<"{", "}">>),
      ToolCallItem("computer_call", Native(4), Native(5), "", <<>>),
      OtherStreamEvent("raw_model_stream_event") }

\* the k-th artifact of a judge output: named after k, with a text part, a
\* data part holding JSON or a data part holding no JSON, in turn
CoreArtifact(k) ==
    CASE k % 3 = 1 -> Artifact(<<"Report", k>>, <<"A report.">>, "text", <<"o", "k">>, <<>>)
      [] k % 3 = 2 -> Artifact(<<"Data", k>>, <<"Some data.">>, "data", <<>>, <<"[", "1", "]">>)
      [] k % 3 = 0 -> Artifact(<<"Raw", k>>, <<"Raw data.">>, "data", <<>>, <<"{", "1">>)

CoreArtifacts(n) == [k \in 1..n |-> CoreArtifact(k)]

CoreJudgeOutputs ==
    { NoFinalOutput,
      FinalOutput(FALSE, "completed", "absent", <<>>),
      FinalOutput(FALSE, "input-required", "null", <<>>) }
    \cup { FinalOutput(FALSE, "completed", "list", CoreArtifacts(n)) : n \in 1..MaxArtifacts }

\* the log of a Session the provider returns: empty, or one earlier turn
CoreSessionLogs == { <<>>, <<User(<<"o", "l", "d">>), Item("message_output_item", <<"message">>)>> }

\* the executions that run: one execution on one context
CoreExecs == {1}

CoreContexts == {"ctx1"}

Next ==
    \/ \E e \in CoreExecs, c \in CoreContexts, t \in BOOLEAN, m \in CoreUserMessages :
          Execute(e, c, t, m)
    \/ \E e \in CoreExecs, ok \in BOOLEAN, log \in CoreSessionLogs : GetSession(e, ok, log)
    \/ \E e \in CoreExecs, ok \in BOOLEAN, log \in CoreSessionLogs :
          ProviderSettle(e, ok, log)
    \/ \E e \in CoreExecs, ok \in BOOLEAN : GetItems(e, ok)
    \/ \E e \in CoreExecs, s \in Servers, ok \in BOOLEAN : ConnectSettle(e, s, ok)
    \/ \E e \in CoreExecs, ok \in BOOLEAN : RunStarted(e, ok)
    \/ \E e \in CoreExecs, ev \in CoreStreamEvents : StreamNext(e, ev)
    \/ \E e \in CoreExecs : StreamFault(e)
    \/ \E e \in CoreExecs : StreamEnd(e)
    \/ \E e \in CoreExecs, ok \in BOOLEAN : Completed(e, ok)
    \/ \E e \in CoreExecs, ok \in BOOLEAN : AddItems(e, ok)
    \/ \E e \in CoreExecs, out \in CoreJudgeOutputs : JudgeReturn(e, out)
    \/ \E e \in CoreExecs : JudgeFault(e)
    \/ \E e \in CoreExecs, ok \in BOOLEAN : Finished(e, ok)
    \/ \E e \in CoreExecs, s \in Servers, ok \in BOOLEAN : CloseSettle(e, s, ok)

Spec == Init /\ [][Next]_vars

(***************************************************************************)
(* The judge driver on every judge output that conforms to                 *)
(* StructuredResponseSchema: each of the five task states with artifacts   *)
(* absent, null, or a list of up to MaxArtifacts artifacts of the three    *)
(* kinds of part.  The executor has no session provider and no servers.    *)
(***************************************************************************)
JudgeParts ==
    { [kind |-> "text", text |-> <<"o", "k">>, data |-> <<>>],
      [kind |-> "data", text |-> <<>>, data |-> <<"{", "}">>],
      [kind |-> "data", text |-> <<>>, data |-> <<"o", "k">>] }

\* the lists of n artifacts, the k-th named after k
JudgeArtifactLists(n) ==
    { [k \in 1..n |-> [name |-> <<"Artifact", k>>, description |-> <<"Output", k>>,
                       part |-> ps[k]]] : ps \in [1..n -> JudgeParts] }

JudgeOutputs ==
    {NoFinalOutput}
    \cup { FinalOutput(FALSE, st, kind, <<>>) :
              st \in TaskStateSchema, kind \in {"absent", "null"} }
    \cup UNION { { FinalOutput(FALSE, st, "list", as) : as \in JudgeArtifactLists(n) } :
                    st \in TaskStateSchema, n \in 0..MaxArtifacts }

JudgeStreamEvents ==
    { MessageItem(NoId, <<Content("output_text", <<"o", "k">>)>>) }

InitJudge ==
    /\ Init
    /\ sessionProvider = "none"
    /\ ~hasMcp

NextJudge ==
    \/ \E e \in CoreExecs, c \in CoreContexts, t \in BOOLEAN, m \in CoreUserMessages :
          Execute(e, c, t, m)
    \/ \E e \in CoreExecs : GetSession(e, TRUE, <<>>)
    \/ \E e \in CoreExecs, ok \in BOOLEAN : RunStarted(e, ok)
    \/ \E e \in CoreExecs, ev \in JudgeStreamEvents : StreamNext(e, ev)
    \/ \E e \in CoreExecs : StreamEnd(e)
    \/ \E e \in CoreExecs, ok \in BOOLEAN : Completed(e, ok)
    \/ \E e \in CoreExecs, out \in JudgeOutputs : JudgeReturn(e, out)
    \/ \E e \in CoreExecs : JudgeFault(e)
    \/ \E e \in CoreExecs, ok \in BOOLEAN : Finished(e, ok)

SpecJudge == InitJudge /\ [][NextJudge]_vars

(***************************************************************************)
(* The translator on run items of every kind and sub-kind it tells apart,  *)
(* with and without a native identifier, and on arguments and outputs that *)
(* are empty, JSON of every shape, and no JSON.  The executor has no       *)
(* servers; it runs without a session provider or with a synchronous one.  *)
(***************************************************************************)
\* rawItem.arguments: empty, {}, [1], 1, {"a":1}, ok, {1
ArgumentStrings ==
    { <<>>,
      <<"{", "}">>,
      <<"[", "1", "]">>,
      <<"1">>,
      <<"{", "\"", "a", "\"", ":", "1", "}">>,
      <<"o", "k">>,
      <<"{", "1">> }

\* rawItem.content of a message
MessageContents ==
    { <<>>,
      <<Content("refusal", <<"n", "o">>)>>,
      <<Content("output_text", <<"a">>)>>,
      <<Content("output_text", <<"a">>), Content("refusal", <<"n", "o">>),
        Content("output_text", <<"b">>)>> }

\* rawItem.output of a function_call_result
Output(type, text, data, mediaType) ==
    [type |-> type, text |-> text, data |-> data, mediaType |-> mediaType]

ToolOutputs ==
    { Output("text", <<"{", "}">>, <<>>, <<>>),
      Output("text", <<"o", "k">>, <<>>, <<>>),
      Output("image", <<>>, <<"b", "y", "t", "e", "s">>, <<"image/png">>),
      Output("audio", <<>>, <<>>, <<>>) }

TranslateStreamEvents ==
    { MessageItem(id, c) : id \in {Native(1)}, c \in MessageContents }
    \cup { MessageItem(NoId, <<Content("output_text", <<"a">>)>>) }
    \cup { ToolCallItem("function_call", Native(2), Native(3), "get_weather", a) :
              a \in ArgumentStrings }
    \cup { ToolCallItem("hosted_tool_call", id, NoId, "web_search", a) :
              id \in {Native(2), NoId}, a \in {<<>>, <<"{", "}">>, <<"o", "k">>} }
    \cup { ToolCallItem("computer_call", Native(2), Native(3), "", <<>>),
           ToolCallItem("reasoning", Native(2), NoId, "", <<>>) }
    \cup { ToolCallOutputItem("function_call_result", Native(4), Native(3),
                              "get_weather", o) : o \in ToolOutputs }
    \cup { ToolCallOutputItem("function_call_result", NoId, Native(3), "get_weather",
                              Output("text", <<"o", "k">>, <<>>, <<>>)) }
    \cup { ToolCallOutputItem("computer_call_result", id, Native(3), "", NoOutput) :
              id \in {Native(4), NoId} }
    \cup { ToolCallOutputItem("hosted_tool_call_result", Native(4), NoId, "", NoOutput),
           StreamEvent("run_item_stream_event", "reasoning_item", "reasoning", Native(5),
                       NoId, "", <<>>, <<>>, NoOutput),
           OtherStreamEvent("raw_model_stream_event") }

InitTranslate ==
    /\ Init
    /\ sessionProvider \in {"none", "sync"}
    /\ ~hasMcp

NextTranslate ==
    \/ \E e \in CoreExecs, c \in CoreContexts, m \in CoreUserMessages :
          Execute(e, c, FALSE, m)
    \/ \E e \in CoreExecs : GetSession(e, TRUE, <<>>)
    \/ \E e \in CoreExecs : GetItems(e, TRUE)
    \/ \E e \in CoreExecs : RunStarted(e, TRUE)
    \/ \E e \in CoreExecs, ev \in TranslateStreamEvents : StreamNext(e, ev)
    \/ \E e \in CoreExecs : StreamEnd(e)
    \/ \E e \in CoreExecs : Completed(e, TRUE)
    \/ \E e \in CoreExecs : AddItems(e, TRUE)
    \/ \E e \in CoreExecs : JudgeReturn(e, FinalOutput(FALSE, "input-required", "absent", <<>>))
    \/ \E e \in CoreExecs : Finished(e, TRUE)

SpecTranslate == InitTranslate /\ [][NextTranslate]_vars

(***************************************************************************)
(* Two executions of one executor without servers, each on either context. *)
(* The steps of the two interleave at the awaits.  Under sequential access *)
(* to the cache no getSession call starts while another one is waiting for *)
(* the provider's Promise.                                                 *)
(***************************************************************************)
SessionStreamEvents ==
    { MessageItem(Native(1), <<Content("output_text", <<"o", "k">>)>>) }

SessionJudgeOutput == FinalOutput(FALSE, "input-required", "absent", <<>>)

\* no other execution is inside getSession, at its await
NoGetSessionInFlight(e) == \A f \in Execs \ {e} : ex[f].pc # "awaitProvider"

InitSessions ==
    /\ Init
    /\ ~hasMcp

\* the steps of execution e after getSession
AfterGetSession(e) ==
    \/ \E ok \in BOOLEAN, log \in CoreSessionLogs : ProviderSettle(e, ok, log)
    \/ GetItems(e, TRUE)
    \/ RunStarted(e, TRUE)
    \/ \E ev \in SessionStreamEvents : StreamNext(e, ev)
    \/ StreamEnd(e)
    \/ Completed(e, TRUE)
    \/ AddItems(e, TRUE)
    \/ JudgeReturn(e, SessionJudgeOutput)
    \/ Finished(e, TRUE)

NextSeq ==
    \/ \E e \in Execs, c \in Contexts, m \in CoreUserMessages : Execute(e, c, FALSE, m)
    \/ \E e \in Execs, ok \in BOOLEAN, log \in CoreSessionLogs :
          NoGetSessionInFlight(e) /\ GetSession(e, ok, log)
    \/ \E e \in Execs : AfterGetSession(e)

SpecSeq == InitSessions /\ [][NextSeq]_vars

NextConc ==
    \/ \E e \in Execs, c \in Contexts, m \in CoreUserMessages : Execute(e, c, FALSE, m)
    \/ \E e \in Execs, ok \in BOOLEAN, log \in CoreSessionLogs : GetSession(e, ok, log)
    \/ \E e \in Execs : AfterGetSession(e)

SpecConc == InitSessions /\ [][NextConc]_vars

(***************************************************************************)
(* The validation schema on values of every shape: no value, each state of *)
(* TaskStateSchema and two states outside it, artifacts absent, null, or a *)
(* list of up to MaxArtifacts artifacts of text, data and file parts.      *)
(***************************************************************************)
ValidationStates == TaskStateSchema \cup {"working", "unknown"}

ValidationParts == JudgeParts \cup { [kind |-> "file", text |-> <<>>, data |-> <<>>] }

ValidationArtifactLists(n) ==
    { [k \in 1..n |-> [name |-> <<"Artifact", k>>, description |-> <<"Output", k>>,
                       part |-> ps[k]]] : ps \in [1..n -> ValidationParts] }

ValidationInputs ==
    {NoFinalOutput}
    \cup { FinalOutput(FALSE, st, kind, <<>>) :
              st \in ValidationStates, kind \in {"absent", "null"} }
    \cup UNION { { FinalOutput(FALSE, st, "list", as) : as \in ValidationArtifactLists(n) } :
                    st \in ValidationStates, n \in 0..MaxArtifacts }

\* StructuredResponseWithArtifactsValidationSchema.safeParse(v)
SafeParse(v) ==
    /\ parsed' = [done |-> TRUE, value |-> v,
                  success |-> StructuredResponseWithArtifactsValidationSchema(v).success,
                  issues |-> StructuredResponseWithArtifactsValidationSchema(v).issues]
    /\ UNCHANGED <<sessionProvider, hasMcp, mcpServers, sessions, store, connected,
                   uuids, ex, cancels>>

InitValidate ==
    /\ Init
    /\ sessionProvider = "none"
    /\ ~hasMcp

NextValidate == \E v \in ValidationInputs : SafeParse(v)

SpecValidate == InitValidate /\ [][NextValidate]_vars

(***************************************************************************)
(* Two executions of one executor with tool servers and without a session  *)
(* provider, each on a task and a context of its own.  Both work on the    *)
(* servers of this.mcpServers.                                             *)
(***************************************************************************)
ContextOf(e) == IF e = 1 THEN "ctx1" ELSE "ctx2"

InitServers ==
    /\ Init
    /\ sessionProvider = "none"
    /\ hasMcp

NextServers ==
    \/ \E e \in Execs, m \in CoreUserMessages : Execute(e, ContextOf(e), FALSE, m)
    \/ \E e \in Execs : GetSession(e, TRUE, <<>>)
    \/ \E e \in Execs, s \in Servers, ok \in BOOLEAN : ConnectSettle(e, s, ok)
    \/ \E e \in Execs, ok \in BOOLEAN : RunStarted(e, ok)
    \/ \E e \in Execs, ev \in SessionStreamEvents : StreamNext(e, ev)
    \/ \E e \in Execs : StreamEnd(e)
    \/ \E e \in Execs : Completed(e, TRUE)
    \/ \E e \in Execs : JudgeReturn(e, SessionJudgeOutput)
    \/ \E e \in Execs : Finished(e, TRUE)
    \/ \E e \in Execs, s \in Servers, ok \in BOOLEAN : CloseSettle(e, s, ok)

SpecServers == InitServers /\ [][NextServers]_vars

(***************************************************************************)
(* Two turns of a conversation, one after the other: execution 2 starts    *)
(* once execution 1 is over.  Each turn has a user message of its own and  *)
(* runs on either context; the executor has no servers.                    *)
(***************************************************************************)
TurnUserMessages ==
    CoreUserMessages \cup { <<MsgPart("text", <<"d">>), MsgPart("file", <<>>)>> }

\* the caller starts turn e when the turn before it is over
TurnStarts(e) == \A f \in Execs : f < e => ex[f].pc = "done"

NextTurns ==
    \/ \E e \in Execs, c \in Contexts, m \in TurnUserMessages :
          TurnStarts(e) /\ Execute(e, c, FALSE, m)
    \/ \E e \in Execs, ok \in BOOLEAN, log \in CoreSessionLogs : GetSession(e, ok, log)
    \/ \E e \in Execs : AfterGetSession(e)

SpecTurns == InitSessions /\ [][NextTurns]_vars

(***************************************************************************)
(* Two executions on one context, each with a user message of its own,     *)
(* whose steps interleave at the awaits.  The executor has a session       *)
(* provider and no servers.                                                *)
(***************************************************************************)
InitShared ==
    /\ Init
    /\ sessionProvider \in {"sync", "async"}
    /\ ~hasMcp

NextShared ==
    \/ \E e \in Execs, c \in CoreContexts, m \in TurnUserMessages :
          Execute(e, c, FALSE, m)
    \/ \E e \in Execs, ok \in BOOLEAN, log \in CoreSessionLogs : GetSession(e, ok, log)
    \/ \E e \in Execs : AfterGetSession(e)

SpecShared == InitShared /\ [][NextShared]_vars

(***************************************************************************)
(* An execution whose collaborators all answer: the stream of the runtime  *)
(* ends or throws after at most MaxItems events, and every call on the     *)
(* session provider, the Session, a server, the runtime and the judge      *)
(* returns or fails.  The code between two awaits runs to the next await.  *)
(***************************************************************************)
LiveStreamEvents ==
    { MessageItem(Native(1), <<Content("output_text", <<"o", "k">>)>>),
      ToolCallItem("computer_call", Native(4), Native(5), "", <<>>) }

LiveJudgeOutputs == { NoFinalOutput, FinalOutput(FALSE, "completed", "list", CoreArtifacts(1)) }

\* a step of execution e after the call of execute
Continue(e) ==
    \/ \E ok \in BOOLEAN : GetSession(e, ok, <<>>)
    \/ \E ok \in BOOLEAN : ProviderSettle(e, ok, <<>>)
    \/ \E ok \in BOOLEAN : GetItems(e, ok)
    \/ \E s \in Servers, ok \in BOOLEAN : ConnectSettle(e, s, ok)
    \/ \E ok \in BOOLEAN : RunStarted(e, ok)
    \/ \E ev \in LiveStreamEvents : StreamNext(e, ev)
    \/ StreamFault(e)
    \/ StreamEnd(e)
    \/ \E ok \in BOOLEAN : Completed(e, ok)
    \/ \E ok \in BOOLEAN : AddItems(e, ok)
    \/ \E out \in LiveJudgeOutputs : JudgeReturn(e, out)
    \/ JudgeFault(e)
    \/ \E ok \in BOOLEAN : Finished(e, ok)
    \/ \E s \in Servers, ok \in BOOLEAN : CloseSettle(e, s, ok)

NextLive ==
    \/ \E e \in CoreExecs, c \in CoreContexts, t \in BOOLEAN, m \in CoreUserMessages :
          Execute(e, c, t, m)
    \/ \E e \in CoreExecs : Continue(e)

SpecLive == Init /\ [][NextLive]_vars /\ \A e \in CoreExecs : WF_vars(Continue(e))

(***************************************************************************)
(* cancelTask during an execution with a session and tool servers: it is   *)
(* called at any point, for the task of the execution or for another one.  *)
(***************************************************************************)
CancelTaskIds == CoreExecs \cup {3}

InitCancel ==
    /\ Init
    /\ sessionProvider = "sync"
    /\ hasMcp
    /\ mcpServers # <<>>

NextCancel ==
    \/ \E e \in CoreExecs, c \in CoreContexts, m \in CoreUserMessages :
          Execute(e, c, FALSE, m)
    \/ \E e \in CoreExecs, log \in CoreSessionLogs : GetSession(e, TRUE, log)
    \/ \E e \in CoreExecs : GetItems(e, TRUE)
    \/ \E e \in CoreExecs, s \in Servers, ok \in BOOLEAN : ConnectSettle(e, s, ok)
    \/ \E e \in CoreExecs : RunStarted(e, TRUE)
    \/ \E e \in CoreExecs, ev \in SessionStreamEvents : StreamNext(e, ev)
    \/ \E e \in CoreExecs : StreamEnd(e)
    \/ \E e \in CoreExecs : Completed(e, TRUE)
    \/ \E e \in CoreExecs : AddItems(e, TRUE)
    \/ \E e \in CoreExecs : JudgeReturn(e, SessionJudgeOutput)
    \/ \E e \in CoreExecs : Finished(e, TRUE)
    \/ \E e \in CoreExecs, s \in Servers, ok \in BOOLEAN : CloseSettle(e, s, ok)
    \/ \E t \in CancelTaskIds : CancelTask(t)

SpecCancel == InitCancel /\ [][NextCancel]_vars

(***************************************************************************)
(* Reading a trace.                                                        *)
(***************************************************************************)
Trace(e) == ex[e].trace

\* the positions of the trace of e whose call satisfies P
Where(e, P(_)) == {i \in 1..Len(Trace(e)) : P(Trace(e)[i])}

IsPublish(c) == c.op = "publish"

IsFinal(c) == c.op = "publish" /\ c.ev.kind = "status-update" /\ c.ev.final

IsArtifact(c) == c.op = "publish" /\ c.ev.kind = "artifact-update"

IsFinished(c) == c.op = "finished"

IsTask(c) == c.op = "publish" /\ c.ev.kind = "task"

\* the working status that opens an execution: not final, no message
IsWorking(c) ==
    /\ c.op = "publish" /\ c.ev.kind = "status-update"
    /\ ~c.ev.final /\ ~c.ev.hasMessage /\ c.ev.state = "working"

\* a status that translates a run item: it carries a message
IsTranslated(c) == c.op = "publish" /\ c.ev.kind = "status-update" /\ c.ev.hasMessage

IsReceived(c) == c.op = "next"

IsAddItems(c) == c.op = "addItems"

IsClose(c) == c.op = "close"

IsConnect(c) == c.op = "connect"

Done(e) == ex[e].pc = "done"

\* execute returned without a fault
Returned(e) == Done(e) /\ ex[e].result = "returned"

\* the state the final status must carry
JudgedState(e) ==
    IF ex[e].finalOutput.isNull THEN "unknown" ELSE ex[e].finalOutput.task_state

(***************************************************************************)
(* C1: every execute that returns without a fault has published exactly    *)
(* one status-update with final = TRUE; its state is the judge's            *)
(* task_state, or unknown when the judge produced no output; no event is    *)
(* published after it; and finished() was called exactly once, after it.    *)
(***************************************************************************)
C1_OneFinalThenFinished ==
    \A e \in Execs :
        Returned(e) =>
            /\ Cardinality(Where(e, IsFinal)) = 1
            /\ Cardinality(Where(e, IsFinished)) = 1
            /\ \A i \in Where(e, IsFinal) :
                  /\ Trace(e)[i].ev.state = JudgedState(e)
                  /\ \A j \in Where(e, IsPublish) : j <= i
                  /\ \A j \in Where(e, IsFinished) : j > i

\* an execution returned after the judge completed the task with artifacts
C1_Witness ==
    \E e \in Execs :
        /\ Returned(e)
        /\ ex[e].finalOutput.task_state = "completed"
        /\ Where(e, IsArtifact) # {}
        /\ Where(e, IsFinished) # {}

\* the phase of an execution a call belongs to, 0 for the calls the order
\* says nothing about
Phase(c) ==
    IF IsTask(c) THEN 1
    ELSE IF IsWorking(c) THEN 2
    ELSE IF IsReceived(c) \/ IsTranslated(c) THEN 3
    ELSE IF IsAddItems(c) THEN 4
    ELSE IF IsArtifact(c) THEN 5
    ELSE IF IsFinal(c) THEN 6
    ELSE IF IsFinished(c) THEN 7
    ELSE 0

\* the run items the translator has an event for
Translatable(sev) ==
    /\ sev.type = "run_item_stream_event"
    /\ \/ /\ sev.itemType = "message_output_item"
          /\ \E k \in 1..Len(sev.content) : sev.content[k].type = "output_text"
       \/ /\ sev.itemType = "tool_call_item"
          /\ sev.rawType \in {"function_call", "hosted_tool_call"}
       \/ /\ sev.itemType = "tool_call_output_item"
          /\ sev.rawType = "function_call_result"

\* event ev is the translation of stream event sev: its tag says the item's
\* type, and its message identifier starts with the item's own identifier
TranslationOf(ev, sev) ==
    /\ Translatable(sev)
    /\ ev.mtype = (CASE sev.itemType = "message_output_item" -> ""
                     [] sev.itemType = "tool_call_item" -> "tool-call"
                     [] sev.itemType = "tool_call_output_item" -> "tool-call-result")
    /\ sev.itemType # "message_output_item" => ev.toolCallName = sev.name
    /\ sev.id # NoId => ev.messageId[1] = sev.id

(***************************************************************************)
(* C2: in a fault-free execution the calls on the event bus and the        *)
(* session come in this order: the submitted task (only when no task was   *)
(* supplied), one working status without a message, the translated events  *)
(* of the run items, each published right after its stream event was       *)
(* received and before the next one is, then addItems, then the            *)
(* artifact-updates, then the one final status, then finished().           *)
(***************************************************************************)
C2_EventOrder ==
    \A e \in Execs :
        Returned(e) =>
            LET tr == Trace(e)
            IN  /\ \A i, j \in 1..Len(tr) :
                      (i < j /\ Phase(tr[i]) # 0 /\ Phase(tr[j]) # 0)
                          => Phase(tr[i]) <= Phase(tr[j])
                /\ Cardinality(Where(e, IsTask)) = (IF ex[e].req.task THEN 0 ELSE 1)
                /\ Cardinality(Where(e, IsWorking)) = 1
                /\ Cardinality(Where(e, IsFinal)) = 1
                /\ Cardinality(Where(e, IsFinished)) = 1
                /\ Cardinality(Where(e, IsAddItems)) <= 1
                /\ Cardinality(Where(e, IsReceived)) = ex[e].delivered
                /\ \A i \in Where(e, IsTranslated) :
                      /\ i > 1
                      /\ IsReceived(tr[i - 1])
                      /\ TranslationOf(tr[i].ev, tr[i - 1].sev)
                /\ \A i \in Where(e, IsReceived) :
                      Translatable(tr[i].sev)
                          => (i < Len(tr) /\ IsTranslated(tr[i + 1]))

\* a fault-free execution in which every phase occurred: a task was
\* submitted, two run items of different types were translated, the turn was
\* persisted and artifacts were published
C2_Witness ==
    \E e \in Execs :
        /\ Returned(e)
        /\ Where(e, IsTask) # {}
        /\ Where(e, IsAddItems) # {}
        /\ Where(e, IsArtifact) # {}
        /\ \E i, j \in Where(e, IsTranslated) :
              i < j /\ Trace(e)[i].ev.mtype = "tool-call" /\ Trace(e)[j].ev.mtype = ""

(***************************************************************************)
(* The judge driver's part of a trace.                                     *)
(***************************************************************************)
ArtifactEvents(e) == SelectSeq(Trace(e), IsArtifact)

FinalEvents(e) == SelectSeq(Trace(e), IsFinal)

\* the judge returned an output and the driver did not throw
Judged(e) == ex[e].judged /\ ex[e].fault # "artifacts"

\* the events published since the judge was called
RECURSIVE AfterJudge(_)
AfterJudge(tr) ==
    IF tr = <<>> THEN <<>>
    ELSE IF Head(tr).op = "judge" THEN SelectSeq(Tail(tr), IsPublish)
    ELSE AfterJudge(Tail(tr))

(***************************************************************************)
(* C3: for a judge output with task_state completed and N >= 1 artifacts   *)
(* the driver publishes exactly N artifact-updates, the k-th for the k-th  *)
(* artifact, with identifiers that differ from one another, and then       *)
(* exactly one final status, with state completed; no artifact-update      *)
(* follows the final status.                                               *)
(***************************************************************************)
C3_CompletedArtifacts ==
    \A e \in Execs :
        LET out == ex[e].finalOutput
            arts == ArtifactEvents(e)
            after == AfterJudge(Trace(e))
            N == Len(out.artifacts)
        IN  (Judged(e) /\ ~out.isNull /\ out.task_state = "completed"
                /\ out.artifactsKind = "list" /\ N >= 1)
            =>  /\ Len(arts) = N
                /\ \A k \in 1..N :
                      /\ arts[k].ev.name = out.artifacts[k].name
                      /\ arts[k].ev.description = out.artifacts[k].description
                      /\ arts[k].ev.artifactId # NoId
                /\ \A j, k \in 1..N : j # k => arts[j].ev.artifactId # arts[k].ev.artifactId
                /\ Len(after) = N + 1
                /\ \A k \in 1..N : IsArtifact(after[k])
                /\ IsFinal(after[N + 1])
                /\ after[N + 1].ev.state = "completed"

\* the judge completed the task with MaxArtifacts artifacts, all published
C3_Witness ==
    \E e \in Execs :
        /\ Judged(e)
        /\ ex[e].finalOutput.task_state = "completed"
        /\ Len(ex[e].finalOutput.artifacts) = MaxArtifacts
        /\ Len(ArtifactEvents(e)) = MaxArtifacts
        /\ Len(FinalEvents(e)) = 1

(***************************************************************************)
(* C4: for a judge output whose task_state is input-required, failed,      *)
(* rejected or auth-required the driver publishes no artifact-update,      *)
(* whether artifacts is absent, null, empty or populated, and exactly one  *)
(* final status, whose state is that task_state.                           *)
(***************************************************************************)
C4_NotCompletedNoArtifacts ==
    \A e \in Execs :
        LET out == ex[e].finalOutput
            after == AfterJudge(Trace(e))
        IN  (Judged(e) /\ ~out.isNull /\ out.task_state # "completed")
            =>  /\ Len(ArtifactEvents(e)) = 0
                /\ Len(after) = 1
                /\ IsFinal(after[1])
                /\ after[1].ev.state = out.task_state
                /\ after[1].ev.state
                      \in {"input-required", "failed", "rejected", "auth-required"}

\* the judge failed the task and named artifacts all the same
C4_Witness ==
    \E e \in Execs :
        /\ Judged(e)
        /\ ex[e].finalOutput.task_state = "failed"
        /\ ex[e].finalOutput.artifactsKind = "list"
        /\ Len(ex[e].finalOutput.artifacts) >= 1
        /\ Len(FinalEvents(e)) = 1

(***************************************************************************)
(* C5: when the judge run produces no output the driver publishes exactly  *)
(* one event, a final status with state unknown, and no artifact-update;   *)
(* the driver does not fault, execute goes on to call finished(), and      *)
(* returns unless finished() itself throws.                                *)
(***************************************************************************)
C5_NoOutputIsUnknown ==
    \A e \in Execs :
        (ex[e].judged /\ ex[e].finalOutput.isNull)
        =>  LET after == AfterJudge(Trace(e))
            IN  /\ Len(after) = 1
                /\ IsFinal(after[1])
                /\ after[1].ev.state = "unknown"
                /\ Len(ArtifactEvents(e)) = 0
                /\ ex[e].fault \in {"", "finished"}
                /\ ex[e].pc = "finish" \/ Where(e, IsFinished) # {}
                /\ Done(e) => ex[e].result \in {"returned", "finished"}

\* an execution whose judge produced no output returned
C5_Witness ==
    \E e \in Execs :
        /\ ex[e].judged /\ ex[e].finalOutput.isNull
        /\ Returned(e)
        /\ Where(e, IsFinished) # {}

(***************************************************************************)
(* C6: a final status with state completed is published only if an         *)
(* artifact-update was published before it in the same execution.          *)
(***************************************************************************)
C6_CompletedHasArtifact ==
    \A e \in Execs :
        \A i \in Where(e, IsFinal) :
            Trace(e)[i].ev.state = "completed"
                => \E j \in Where(e, IsArtifact) : j < i

CloseCallsOn(e, s) == {i \in Where(e, IsClose) : Trace(e)[i].server = s}

ConnectCallsOn(e, s) == {i \in Where(e, IsConnect) : Trace(e)[i].server = s}

(***************************************************************************)
(* C7: with tool servers configured, an execution that is over has called  *)
(* close() exactly once on every configured server, however its try block  *)
(* ended, and never more than once before; with no tool servers            *)
(* configured, connect() and close() are never called.                     *)
(***************************************************************************)
C7_CloseOnEveryExit ==
    \A e \in Execs :
        /\ hasMcp =>
              /\ \A s \in Servers : Cardinality(CloseCallsOn(e, s)) <= 1
              /\ \A s \in Servers \ Configured :
                    CloseCallsOn(e, s) = {} /\ ConnectCallsOn(e, s) = {}
              /\ Done(e) => \A s \in Configured : Cardinality(CloseCallsOn(e, s)) = 1
        /\ ~hasMcp => Where(e, IsClose) = {} /\ Where(e, IsConnect) = {}

\* an execution whose translator threw closed both configured servers
C7_Witness ==
    \E e \in Execs :
        /\ Done(e)
        /\ ex[e].fault = "translate"
        /\ Len(mcpServers) >= 2
        /\ \A s \in Configured : Cardinality(CloseCallsOn(e, s)) = 1

(***************************************************************************)
(* C8: closing never raises.  When a close() fails, close() has been       *)
(* called on every configured server all the same, and execute ends as its *)
(* try block ended: it returns when the try block ended normally and       *)
(* throws the try block's fault otherwise, never a close failure.          *)
(***************************************************************************)
C8_CloseFailuresIsolated ==
    \A e \in Execs :
        /\ (\E s \in Configured : ex[e].closeSt[s] = "failed")
              => \A t \in Configured : CloseCallsOn(e, t) # {}
        /\ Done(e) =>
              /\ \A t \in Configured : hasMcp => ex[e].closeSt[t] \in {"closed", "failed"}
              /\ ex[e].result = (IF ex[e].fault = "" THEN "returned" ELSE ex[e].fault)

\* an execution returned although the close() of its first server failed,
\* and its second server was closed
C8_Witness ==
    \E e \in Execs :
        /\ Returned(e)
        /\ Len(mcpServers) >= 2
        /\ ex[e].closeSt[1] = "failed"
        /\ ex[e].closeSt[2] = "closed"

IsRun(c) == c.op = "run"

IsJudge(c) == c.op = "judge"

(***************************************************************************)
(* C9: once a connect() of an execution has failed, that execution faults  *)
(* with the connect failure; it never calls the streaming run, the judge   *)
(* or addItems, its session's log stays as it was read, and close() is     *)
(* called on every configured server, also on those whose connect() did    *)
(* not succeed.                                                            *)
(***************************************************************************)
C9_ConnectFailure ==
    \A e \in Execs :
        (\E s \in Configured : ex[e].connSt[s] = "failed")
        =>  /\ ex[e].fault = "connect"
            /\ Where(e, IsRun) = {}
            /\ Where(e, IsJudge) = {}
            /\ Where(e, IsAddItems) = {}
            /\ ex[e].session # 0 => store[ex[e].session] = ex[e].sessionHistory
            /\ \A t \in Configured : CloseCallsOn(e, t) # {}
            /\ Done(e) => ex[e].result = "connect"

\* an execution with a session is over after its second server's connect()
\* failed while its first server's succeeded
C9_Witness ==
    \E e \in Execs :
        /\ Done(e)
        /\ ex[e].session # 0
        /\ Len(mcpServers) >= 2
        /\ ex[e].connSt[1] = "ok"
        /\ ex[e].connSt[2] = "failed"
        /\ ex[e].result = "connect"

FaultSteps ==
    {"session", "getItems", "connect", "run", "stream", "translate", "completed",
     "addItems", "judge", "artifacts"}

IsFailedStatus(c) ==
    c.op = "publish" /\ c.ev.kind = "status-update" /\ c.ev.state = "failed"

NoTerminalOnFault ==
    \A e \in Execs :
        ex[e].fault \in FaultSteps
        =>  /\ Where(e, IsFinal) = {}
            /\ Where(e, IsFailedStatus) = {}
            /\ Where(e, IsFinished) = {}
            /\ Done(e) => ex[e].result = ex[e].fault

TraceGrows ==
    \A e \in Execs :
        /\ Len(ex'[e].trace) >= Len(ex[e].trace)
        /\ SubSeq(ex'[e].trace, 1, Len(ex[e].trace)) = ex[e].trace

(***************************************************************************)
(* C10: an execution whose try block faulted in session retrieval,         *)
(* connect, the streaming run, translation, persistence, the judge run or  *)
(* artifact translation has published no status with final = TRUE and no   *)
(* status with state failed, and has not called finished(); and a trace    *)
(* only ever grows, so the events published before the fault stay          *)
(* published.                                                              *)
(***************************************************************************)
C10_NoTerminalOnFault == []NoTerminalOnFault /\ [][TraceGrows]_vars

\* an execution faulted in translation after it had published the
\* translation of an earlier run item
C10_Witness ==
    \E e \in Execs :
        /\ Done(e)
        /\ ex[e].fault = "translate"
        /\ Where(e, IsTranslated) # {}

\* the run items the translator has no event for and throws on
IsUnsupported(sev) ==
    /\ sev.type = "run_item_stream_event"
    /\ \/ sev.itemType = "tool_call_item" /\ sev.rawType = "computer_call"
       \/ sev.itemType = "tool_call_output_item" /\ sev.rawType = "computer_call_result"

(***************************************************************************)
(* C11: when the for-await loop has received a tool call of sub-kind       *)
(* computer_call or a tool call output of sub-kind computer_call_result,   *)
(* the execution has faulted in translation: nothing is published from     *)
(* that item on, no later stream event is received, addItems, the judge    *)
(* and finished() are never called, the session's log stays as it was      *)
(* read, and execute throws the translator's error.                        *)
(***************************************************************************)
C11_UnsupportedKindFails ==
    \A e \in Execs :
        \A i \in Where(e, IsReceived) :
            IsUnsupported(Trace(e)[i].sev)
            =>  /\ ex[e].fault = "translate"
                /\ \A j \in Where(e, IsPublish) : j < i
                /\ \A j \in Where(e, IsReceived) : j <= i
                /\ Where(e, IsAddItems) = {}
                /\ Where(e, IsJudge) = {}
                /\ Where(e, IsFinished) = {}
                /\ ex[e].session # 0 => store[ex[e].session] = ex[e].sessionHistory
                /\ ex[e].pc \in {"closing", "done"}
                /\ Done(e) => ex[e].result = "translate"

\* an execution with a session threw on a computer_call_result after it had
\* published the translation of an earlier run item
C11_Witness ==
    \E e \in Execs :
        /\ Done(e)
        /\ ex[e].session # 0
        /\ Where(e, IsTranslated) # {}
        /\ \E i \in Where(e, IsReceived) :
              /\ Trace(e)[i].sev.rawType = "computer_call_result"
              /\ i = Len(Trace(e))

IsProvider(c) == c.op = "provider"

\* the executions on context c
On(c) == {e \in Execs : ex[e].req.contextId = c}

\* the executions on context c that invoked the provider
ProviderCalls(c) == {e \in On(c) : Where(e, IsProvider) # {}}

\* the executions on context c whose provider invocation failed
ProviderFailures(c) == {e \in On(c) : ex[e].fault = "session"}

\* executions on one context hold the same Session instance, and the
\* provider is invoked once per context, and once more after each failure
OneSessionPerContext ==
    /\ \A e, f \in Execs :
          (ex[e].req.contextId = ex[f].req.contextId
              /\ ex[e].session # 0 /\ ex[f].session # 0)
          => ex[e].session = ex[f].session
    /\ \A c \in Contexts :
          /\ Cardinality(ProviderCalls(c)) <= 1 + Cardinality(ProviderFailures(c))
          /\ ProviderFailures(c) = {} => Cardinality(ProviderCalls(c)) <= 1
    /\ \A e \in Execs :
          ex[e].session # 0 => sessions[ex[e].req.contextId] = ex[e].session
    /\ \A c, d \in Contexts : (c # d /\ sessions[c] # 0) => sessions[c] # sessions[d]

\* an entry of the cache stays as it is
CacheKept == \A c \in Contexts : sessions[c] # 0 => sessions'[c] = sessions[c]

(***************************************************************************)
(* C12: under sequential access to the cache, with a session provider      *)
(* configured, the executions on one context hold the identical Session    *)
(* instance, the provider is invoked at most once per context unless an    *)
(* invocation failed, and an entry of the cache is never removed or        *)
(* replaced by a later execution on the same or on another context.        *)
(***************************************************************************)
C12_SequentialCacheIdempotent == []OneSessionPerContext /\ [][CacheKept]_vars

\* two executions on one context hold the same Session, the provider was
\* invoked by the first only, and the other context has a Session of its own
C12_Witness ==
    /\ ex[1].req.contextId = ex[2].req.contextId
    /\ ex[1].session # 0
    /\ ex[1].session = ex[2].session
    /\ Cardinality(ProviderCalls(ex[1].req.contextId)) = 1
    /\ Done(1) /\ Done(2)

(***************************************************************************)
(* C13 as claimed: in every interleaving of executions on one context,     *)
(* also with an asynchronous provider, the provider is invoked at most     *)
(* once for the context (no invocation having failed) and the executions   *)
(* hold the same Session instance.                                         *)
(***************************************************************************)
C13_OneInstancePerContext ==
    \A c \in Contexts :
        ProviderFailures(c) = {}
        =>  /\ Cardinality(ProviderCalls(c)) <= 1
            /\ \A e, f \in On(c) :
                  (ex[e].session # 0 /\ ex[f].session # 0)
                      => ex[e].session = ex[f].session

(***************************************************************************)
(* C13: in every interleaving of executions, with a synchronous provider   *)
(* the provider is invoked at most once per context (once more after each  *)
(* failed invocation) and the executions on one context hold the same      *)
(* Session instance.  With an asynchronous provider two executions on one  *)
(* context hold different instances only if both invoked the provider,     *)
(* their getSession calls overlapping at the await; an execution that did  *)
(* not invoke the provider holds an instance that another execution on its *)
(* context created.                                                        *)
(***************************************************************************)
C13_OneInstanceUnlessOverlap ==
    /\ sessionProvider = "sync" => OneSessionPerContext
    /\ \A e, f \in Execs :
          (ex[e].req.contextId = ex[f].req.contextId
              /\ ex[e].session # 0 /\ ex[f].session # 0
              /\ ex[e].session # ex[f].session)
          =>  /\ sessionProvider = "async"
              /\ Where(e, IsProvider) # {}
              /\ Where(f, IsProvider) # {}
    /\ \A e \in Execs :
          (ex[e].session # 0 /\ Where(e, IsProvider) = {})
          => \E f \in On(ex[e].req.contextId) \ {e} :
                Where(f, IsProvider) # {} /\ ex[f].session = ex[e].session

\* two executions on one context both invoked an asynchronous provider and
\* ran to their ends on different Session instances
C13_Witness ==
    /\ sessionProvider = "async"
    /\ ex[1].req.contextId = ex[2].req.contextId
    /\ Where(1, IsProvider) # {} /\ Where(2, IsProvider) # {}
    /\ ex[1].session # 0 /\ ex[2].session # 0
    /\ ex[1].session # ex[2].session
    /\ Returned(1) /\ Returned(2)

\* the streaming run of e is in progress, every connect() of e having succeeded
Streaming(e) ==
    /\ ex[e].pc = "stream"
    /\ \A s \in Configured : ex[e].connSt[s] = "ok"

(***************************************************************************)
(* C14: while the streaming run of an execution is in progress, every      *)
(* configured tool server is connected: no other execution's cleanup has   *)
(* closed a server the execution connected.                                *)
(***************************************************************************)
C14_ServersStayConnected ==
    \A e \in Execs : Streaming(e) => \A s \in Configured : connected[s]

\* e has a Session and its streaming run completed: result.completed resolved
RunCompleted(e) ==
    /\ ex[e].session # 0
    /\ \/ ex[e].pc \in {"awaitAddItems", "awaitJudge", "finish"}
       \/ /\ ex[e].pc \in {"closing", "done"}
          /\ ex[e].fault \in {"", "addItems", "judge", "artifacts", "finished"}

\* the run items the for-await loop of e received, as items of result.history
RunItems(e) ==
    LET recv == SelectSeq(Trace(e), IsReceived)
        items == [k \in 1..Len(recv) |->
                     Item(recv[k].sev.itemType, <<recv[k].sev.rawType>>)]
    IN  SelectSeq(items, LAMBDA it : it.kind # "")

(***************************************************************************)
(* C15: an execution with a Session whose streaming run completed has      *)
(* called addItems exactly once, after the run and every stream event and  *)
(* before the judge, with the user items of the request followed by the    *)
(* items of result.history beyond the input, which are the run items of    *)
(* this run; with no new item the call carries exactly the user items.     *)
(* Once addItems has succeeded the Session's log is the log read at the    *)
(* start followed by those items.                                          *)
(***************************************************************************)
C15_TurnPersisted ==
    \A e \in Execs :
        RunCompleted(e) =>
            LET tr == Trace(e)
                x == ex[e]
            IN  /\ Cardinality(Where(e, IsAddItems)) = 1
                /\ x.input = x.sessionHistory \o x.userMessages
                /\ \A i \in Where(e, IsAddItems) :
                      /\ tr[i].items =
                            x.userMessages
                              \o SubSeq(x.history, Len(x.input) + 1, Len(x.history))
                      /\ tr[i].items = x.userMessages \o RunItems(e)
                      /\ RunItems(e) = <<>> => tr[i].items = x.userMessages
                      /\ \A j \in Where(e, IsRun) \cup Where(e, IsReceived) : j < i
                      /\ \A j \in Where(e, IsJudge) : j > i
                      /\ (x.pc \in {"awaitJudge", "finish"} \/ Returned(e))
                            => /\ Where(e, IsJudge) # {}
                               /\ store[x.session] = x.sessionHistory \o tr[i].items

\* an execution returned whose Session held an earlier turn and whose run
\* produced new items
C15_Witness ==
    \E e \in Execs :
        /\ Returned(e)
        /\ ex[e].session # 0
        /\ ex[e].sessionHistory # <<>>
        /\ Len(RunItems(e)) >= 1
        /\ Where(e, IsAddItems) # {}

IsGetItems(c) == c.op = "getItems"

\* the text parts of a user message, each as a user item, in order
TextItems(msg) ==
    LET ts == SelectSeq(msg, LAMBDA p : p.kind = "text")
    IN  [k \in 1..Len(ts) |-> User(ts[k].text)]

\* without a session provider nothing of the session machinery is used
NoProviderNoSession ==
    sessionProvider = "none" =>
        /\ \A c \in Contexts : sessions[c] = 0
        /\ store = <<>>
        /\ \A e \in Execs :
              /\ ex[e].session = 0
              /\ Where(e, IsProvider) = {}
              /\ Where(e, IsGetItems) = {}
              /\ Where(e, IsAddItems) = {}
              /\ \A i \in Where(e, IsRun) :
                    /\ Trace(e)[i].items = TextItems(ex[e].req.userMessage)
                    /\ ex[e].input = Trace(e)[i].items

(***************************************************************************)
(* C16: with no session provider configured, getSession gives no Session   *)
(* for either context, the cache and the provider are never touched,       *)
(* getItems and addItems are never called, and the input of every          *)
(* streaming run is exactly the user items of its request.                 *)
(***************************************************************************)
C16_NoProviderNoSession ==
    /\ []NoProviderNoSession
    /\ [][sessionProvider = "none" => UNCHANGED <<sessions, store>>]_vars

\* without a provider two executions on different contexts returned
C16_Witness ==
    /\ sessionProvider = "none"
    /\ ex[1].req.contextId # ex[2].req.contextId
    /\ Returned(1) /\ Returned(2)
    /\ Where(1, IsRun) # {} /\ Where(2, IsRun) # {}

IsMessageOutput(sev) ==
    sev.type = "run_item_stream_event" /\ sev.itemType = "message_output_item"

\* the output_text fragments of a message's content, in order
OutputTexts(content) == SelectSeq(content, LAMBDA f : f.type = "output_text")

\* nothing was published for the stream event received at position i
NothingPublishedFor(tr, i) == i = Len(tr) \/ ~IsPublish(tr[i + 1])

\* exactly one event was published for the stream event received at i
OnePublishedFor(tr, i) ==
    /\ i < Len(tr) /\ IsPublish(tr[i + 1])
    /\ i + 1 = Len(tr) \/ ~IsPublish(tr[i + 2])

\* the translator did not throw on the stream event received at position i
RunContinuedAfter(e, i) ==
    ex[e].fault = "translate" => \E j \in Where(e, IsReceived) : j > i

(***************************************************************************)
(* C17: for a message output item with at least one output_text fragment   *)
(* the translator publishes exactly one event: a status-update, state      *)
(* working, not final, whose message has one text part per output_text     *)
(* fragment, in order and with the fragment's text, fragments of other     *)
(* kinds being skipped, and whose message identifier is the item's, or a   *)
(* fresh one when the item has none.  For an item without output_text      *)
(* fragment nothing is published and the run continues.                    *)
(***************************************************************************)
C17_MessageOutputTranslated ==
    \A e \in Execs :
        \A i \in Where(e, IsReceived) :
            LET tr == Trace(e)
                sev == tr[i].sev
                texts == OutputTexts(sev.content)
            IN  IsMessageOutput(sev) =>
                    /\ RunContinuedAfter(e, i)
                    /\ IF Len(texts) = 0 THEN NothingPublishedFor(tr, i)
                       ELSE /\ OnePublishedFor(tr, i)
                            /\ tr[i + 1].ev.kind = "status-update"
                            /\ tr[i + 1].ev.state = "working"
                            /\ ~tr[i + 1].ev.final
                            /\ tr[i + 1].ev.hasMessage
                            /\ tr[i + 1].ev.taskId = ex[e].req.taskId
                            /\ tr[i + 1].ev.contextId = ex[e].req.contextId
                            /\ Len(tr[i + 1].ev.parts) = Len(texts)
                            /\ \A k \in 1..Len(texts) :
                                  /\ tr[i + 1].ev.parts[k].kind = "text"
                                  /\ tr[i + 1].ev.parts[k].text = texts[k].text
                            /\ IF sev.id # NoId
                               THEN tr[i + 1].ev.messageId[1] = sev.id
                               ELSE tr[i + 1].ev.messageId[1][1] = "uuid"

\* an execution returned after a message of two output_text fragments around
\* a refusal was published with two text parts, and a message without
\* output_text fragment was passed over
C17_Witness ==
    \E e \in Execs :
        /\ Returned(e)
        /\ \E i \in Where(e, IsTranslated) :
              /\ Len(Trace(e)[i].ev.parts) = 2
              /\ Len(Trace(e)[i - 1].sev.content) = 3
        /\ \E i \in Where(e, IsReceived) :
              /\ IsMessageOutput(Trace(e)[i].sev)
              /\ OutputTexts(Trace(e)[i].sev.content) = <<>>

IsToolCall(sev) ==
    /\ sev.type = "run_item_stream_event"
    /\ sev.itemType = "tool_call_item"
    /\ sev.rawType \in {"function_call", "hosted_tool_call"}

\* the strings of ArgumentStrings that are JSON, each with its value:
\* {} , [1] , 1 and {"a":1}
JsonOf(s) ==
    CASE s = <<"{", "}">> -> JObj(<<>>)
      [] s = <<"[", "1", "]">> -> JArr(<<Member(<<>>, JNum(1))>>)
      [] s = <<"1">> -> JNum(1)
      [] s = <<"{", "\"", "a", "\"", ":", "1", "}">> -> JObj(<<Member(<<"a">>, JNum(1))>>)

IsJson(s) ==
    s \in { <<"{", "}">>, <<"[", "1", "]">>, <<"1">>,
            <<"{", "\"", "a", "\"", ":", "1", "}">> }

\* the part a string stands for: its value as data, or the string as text
PartFor(s) == IF IsJson(s) THEN DataPart(JsonOf(s)) ELSE TextPart(s)

\* the event published for the tool call received at position i of the
\* trace of e is a tool-call status with the given parts
ToolCallPublished(e, i, parts) ==
    LET tr == Trace(e)
        sev == tr[i].sev
    IN  /\ RunContinuedAfter(e, i)
        /\ OnePublishedFor(tr, i)
        /\ tr[i + 1].ev.kind = "status-update"
        /\ tr[i + 1].ev.state = "working"
        /\ ~tr[i + 1].ev.final
        /\ tr[i + 1].ev.mtype = "tool-call"
        /\ tr[i + 1].ev.toolCallName = sev.name
        /\ tr[i + 1].ev.parts = parts

(***************************************************************************)
(* C18 as claimed: for a tool call of sub-kind function_call or            *)
(* hosted_tool_call and every arguments string, the empty one included,    *)
(* the event published carries exactly one part: the parsed value as data  *)
(* when the string is JSON, the string as text otherwise; the execution    *)
(* does not fault.                                                         *)
(***************************************************************************)
C18_OnePartForArguments ==
    \A e \in Execs :
        \A i \in Where(e, IsReceived) :
            IsToolCall(Trace(e)[i].sev)
                => ToolCallPublished(e, i, <<PartFor(Trace(e)[i].sev.arguments)>>)

(***************************************************************************)
(* C18: for a tool call of sub-kind function_call or hosted_tool_call the  *)
(* translator publishes one tool-call status.  For a non-empty arguments   *)
(* string it carries exactly one part: the parsed value as data when the   *)
(* string is JSON (an object or not), the string as text otherwise.  For   *)
(* an empty arguments string it carries no part.  A string that is not     *)
(* JSON never faults the execution.                                        *)
(***************************************************************************)
C18_ArgumentsPart ==
    \A e \in Execs :
        \A i \in Where(e, IsReceived) :
            LET a == Trace(e)[i].sev.arguments
            IN  IsToolCall(Trace(e)[i].sev)
                    => ToolCallPublished(e, i, IF a = <<>> THEN <<>> ELSE <<PartFor(a)>>)

\* an execution returned after it published a tool call whose arguments are
\* no JSON with a text part, and a tool call with empty arguments without part
C18_Witness ==
    \E e \in Execs :
        /\ Returned(e)
        /\ \E i \in Where(e, IsTranslated) :
              /\ Trace(e)[i].ev.mtype = "tool-call"
              /\ Trace(e)[i].ev.parts = <<TextPart(<<"{", "1">>)>>
        /\ \E i \in Where(e, IsTranslated) :
              /\ Trace(e)[i].ev.mtype = "tool-call"
              /\ Trace(e)[i - 1].sev.arguments = <<>>
              /\ Trace(e)[i].ev.parts = <<>>

\* a value of the StructuredResponse shape: one of the five states, and
\* artifacts absent, null or a list of artifacts with text or data parts
IsStructuredResponse(v) ==
    /\ ~v.isNull
    /\ v.task_state \in {"input-required", "completed", "failed", "rejected", "auth-required"}
    /\ v.artifactsKind = "list" =>
          \A k \in 1..Len(v.artifacts) : v.artifacts[k].part.kind \in {"text", "data"}

\* artifacts is present and non-empty
HasArtifacts(v) == v.artifactsKind = "list" /\ Len(v.artifacts) >= 1

(***************************************************************************)
(* C19: the validation schema accepts a StructuredResponse exactly when    *)
(* its artifacts are present and non-empty if and only if its task_state   *)
(* is completed: completed with absent, null or empty artifacts is         *)
(* rejected, another state with a non-empty list is rejected, and every    *)
(* other combination over the five states is accepted.                     *)
(***************************************************************************)
C19_ValidationAccepts ==
    (parsed.done /\ IsStructuredResponse(parsed.value)) =>
        LET v == parsed.value
        IN  /\ parsed.success <=> (HasArtifacts(v) <=> v.task_state = "completed")
            /\ (v.task_state = "completed" /\ ~HasArtifacts(v)) => ~parsed.success
            /\ (v.task_state # "completed" /\ HasArtifacts(v)) => ~parsed.success
            /\ (v.task_state = "completed" /\ HasArtifacts(v)) => parsed.success
            /\ (v.task_state # "completed" /\ ~HasArtifacts(v)) => parsed.success
            /\ parsed.success <=> parsed.issues = {}

\* a completed response with an empty list of artifacts was rejected
C19_Witness ==
    /\ parsed.done
    /\ parsed.value.task_state = "completed"
    /\ parsed.value.artifactsKind = "list"
    /\ parsed.value.artifacts = <<>>
    /\ ~parsed.success

\* execute has begun for execution e
Started(e) == ex[e].pc # "idle"

(***************************************************************************)
(* C20: execute publishes a Task event, state submitted, with the          *)
(* execution's task id and context id and a history of exactly the         *)
(* incoming user message, if and only if the caller supplied no Task; the  *)
(* Task event is the first event published and there is at most one, so no *)
(* Task event is published for an existing task.                           *)
(***************************************************************************)
C20_TaskSubmittedIffNoTask ==
    \A e \in Execs :
        Started(e) =>
            /\ (Where(e, IsTask) # {}) <=> ~ex[e].req.task
            /\ Cardinality(Where(e, IsTask)) <= 1
            /\ \A i \in Where(e, IsTask) :
                  /\ \A j \in Where(e, IsPublish) : i <= j
                  /\ ex[e].trace[i].ev.state = "submitted"
                  /\ ex[e].trace[i].ev.taskId = ex[e].req.taskId
                  /\ ex[e].trace[i].ev.contextId = ex[e].req.contextId
                  /\ ex[e].trace[i].ev.history = <<ex[e].req.userMessage>>

\* an execution whose caller supplied no task returned; its Task event was
\* its first call
C20_Witness ==
    \E e \in Execs :
        /\ Returned(e)
        /\ ~ex[e].req.task
        /\ Where(e, IsTask) = {1}
        /\ Where(e, IsFinal) # {}

IsStatus(c) == c.op = "publish" /\ c.ev.kind = "status-update"

(***************************************************************************)
(* C21: in every state, a status-update published with final = FALSE has   *)
(* state working; one published with final = TRUE has one of the states    *)
(* input-required, completed, failed, rejected, auth-required, unknown,    *)
(* and unknown only when the judge produced no output; submitted is the    *)
(* state of the Task event only; canceled is never published.              *)
(***************************************************************************)
C21_StatesOfPublishedEvents ==
    \A e \in Execs :
        \A i \in Where(e, IsPublish) :
            LET ev == Trace(e)[i].ev
            IN  /\ (IsStatus(Trace(e)[i]) /\ ~ev.final) => ev.state = "working"
                /\ (IsStatus(Trace(e)[i]) /\ ev.final) =>
                      /\ ev.state \in {"input-required", "completed", "failed",
                                       "rejected", "auth-required", "unknown"}
                      /\ ev.state = "unknown" =>
                            ex[e].judged /\ ex[e].finalOutput.isNull
                /\ ev.state = "submitted" => IsTask(Trace(e)[i])
                /\ IsTask(Trace(e)[i]) => ev.state = "submitted"
                /\ ev.state # "canceled"

\* an execution published its Task, a translated message and a final status
\* of state auth-required or unknown
C21_Witness ==
    \E e \in Execs :
        /\ Where(e, IsTask) # {}
        /\ Where(e, IsTranslated) # {}
        /\ \E i \in Where(e, IsFinal) :
              Trace(e)[i].ev.state \in {"auth-required", "unknown"}

\* every cancelTask call made finished() its only call
CancelsOnlyFinish ==
    \A k \in 1..Len(cancels) :
        /\ Cardinality({i \in 1..Len(cancels[k].calls) :
                           IsFinished(cancels[k].calls[i])}) = 1
        /\ \A i \in 1..Len(cancels[k].calls) :
              /\ ~IsPublish(cancels[k].calls[i])
              /\ IsFinished(cancels[k].calls[i])

\* a step that is a cancelTask call leaves the executor and the executions
\* as they are
CancelChangesNothing ==
    cancels' # cancels => UNCHANGED <<sessions, store, connected, uuids, ex>>

(***************************************************************************)
(* C22: cancelTask, for any task id and at any point of an execution,      *)
(* calls finished() exactly once and does nothing else: it publishes no    *)
(* event and no canceled state, and leaves the session cache, the sessions *)
(* and the tool servers unchanged.                                         *)
(***************************************************************************)
C22_CancelOnlyFinishes == []CancelsOnlyFinish /\ [][CancelChangesNothing]_vars

\* cancelTask was called for the task of an execution that is consuming
\* its stream, with a session cached and a server connected
C22_Witness ==
    \E e \in Execs :
        /\ ex[e].pc = "stream"
        /\ sessions[ex[e].req.contextId] # 0
        /\ \E s \in Servers : connected[s]
        /\ \E k \in 1..Len(cancels) : cancels[k].taskId = ex[e].req.taskId
        /\ cancels[Len(cancels)].calls = <<Call("finished")>>

\* the stream events the translator has no branch for
Untranslated(sev) ==
    \/ sev.type # "run_item_stream_event"
    \/ sev.itemType \notin {"message_output_item", "tool_call_item", "tool_call_output_item"}
    \/ /\ sev.itemType = "tool_call_item"
       /\ sev.rawType \notin {"function_call", "hosted_tool_call", "computer_call"}
    \/ /\ sev.itemType = "tool_call_output_item"
       /\ sev.rawType \notin {"function_call_result", "computer_call_result"}

(***************************************************************************)
(* C23: the translator publishes at most one event for a stream event, and *)
(* each event it publishes is a status-update of state working and not     *)
(* final.  For a stream event that is no run item, a run item of an        *)
(* unrecognised type, a tool call of a sub-kind other than function_call,  *)
(* hosted_tool_call and computer_call, and a tool-call output of a         *)
(* sub-kind other than function_call_result and computer_call_result, it   *)
(* publishes nothing, and the run neither faults nor stops.                *)
(***************************************************************************)
C23_AtMostOneWorkingEvent ==
    \A e \in Execs :
        \A i \in Where(e, IsReceived) :
            LET tr == Trace(e)
            IN  /\ NothingPublishedFor(tr, i) \/ OnePublishedFor(tr, i)
                /\ ~NothingPublishedFor(tr, i) =>
                      /\ IsStatus(tr[i + 1])
                      /\ tr[i + 1].ev.state = "working"
                      /\ ~tr[i + 1].ev.final
                /\ Untranslated(tr[i].sev) =>
                      /\ NothingPublishedFor(tr, i)
                      /\ RunContinuedAfter(e, i)

\* an execution went on to translate a run item after a tool call of an
\* unknown sub-kind, and returned
C23_Witness ==
    \E e \in Execs :
        /\ Returned(e)
        /\ \E i, j \in Where(e, IsReceived) :
              /\ i < j
              /\ Trace(e)[i].sev.itemType = "tool_call_item"
              /\ Untranslated(Trace(e)[i].sev)
              /\ OnePublishedFor(Trace(e), j)

\* a function_call_result whose output is of the tagged union: text or image
IsFunctionCallResult(sev) ==
    /\ sev.type = "run_item_stream_event"
    /\ sev.itemType = "tool_call_output_item"
    /\ sev.rawType = "function_call_result"
    /\ sev.output.type \in {"text", "image"}

ArtifactPart(a) == IF a.part.kind = "text" THEN TextPart(a.part.text) ELSE PartFor(a.part.data)

(***************************************************************************)
(* C25: each artifact-update carries the artifact's name and description   *)
(* unchanged and exactly one part: for a text artifact a text part with    *)
(* the same text; for a data artifact the parsed value as a data part when *)
(* its string is JSON, and the raw string as a text part otherwise.  Data  *)
(* that is no JSON does not fault the execution, and the artifacts after   *)
(* it and the final status are published.                                  *)
(***************************************************************************)
C25_ArtifactParts ==
    \A e \in Execs :
        LET out == ex[e].finalOutput
            arts == ArtifactEvents(e)
            N == Len(out.artifacts)
        IN  (ex[e].judged /\ ~out.isNull /\ out.task_state = "completed"
                /\ out.artifactsKind = "list")
            =>  /\ ex[e].fault # "artifacts"
                /\ Len(arts) = N
                /\ \A k \in 1..N :
                      /\ arts[k].ev.name = out.artifacts[k].name
                      /\ arts[k].ev.description = out.artifacts[k].description
                      /\ arts[k].ev.parts = <<ArtifactPart(out.artifacts[k])>>
                /\ Len(FinalEvents(e)) = 1
                /\ \A i \in Where(e, IsArtifact), j \in Where(e, IsFinal) : i < j

\* an execution returned after the judge named a data artifact whose string
\* is no JSON, followed by another artifact
C25_Witness ==
    \E e \in Execs :
        /\ Returned(e)
        /\ ex[e].finalOutput.task_state = "completed"
        /\ Len(ex[e].finalOutput.artifacts) >= 2
        /\ ex[e].finalOutput.artifacts[1].part.kind = "data"
        /\ ~IsJson(ex[e].finalOutput.artifacts[1].part.data)
        /\ Len(ArtifactEvents(e)) = Len(ex[e].finalOutput.artifacts)
        /\ ArtifactEvents(e)[1].ev.parts[1].kind = "text"

(***************************************************************************)
(* C26: when the judge returns task_state completed with artifacts absent, *)
(* null or an empty list, the judge driver does not fault: it publishes no *)
(* artifact-update and exactly one final status, with state completed, and *)
(* execute then calls finished().                                          *)
(***************************************************************************)
C26_CompletedWithoutArtifacts ==
    \A e \in Execs :
        LET out == ex[e].finalOutput
            after == AfterJudge(Trace(e))
        IN  (ex[e].judged /\ ~out.isNull /\ out.task_state = "completed"
                /\ (out.artifactsKind \in {"absent", "null"} \/ out.artifacts = <<>>))
            =>  /\ ex[e].fault \notin {"artifacts", "judge"}
                /\ Len(ArtifactEvents(e)) = 0
                /\ Len(after) = 1
                /\ IsFinal(after[1])
                /\ after[1].ev.state = "completed"
                /\ \/ ex[e].pc = "finish" /\ Where(e, IsFinished) = {}
                   \/ /\ Cardinality(Where(e, IsFinished)) = 1
                      /\ \A i \in Where(e, IsFinal), j \in Where(e, IsFinished) : i < j

\* an execution returned after the judge completed the task with an empty
\* list of artifacts
C26_Witness ==
    \E e \in Execs :
        /\ Returned(e)
        /\ ex[e].finalOutput.task_state = "completed"
        /\ ex[e].finalOutput.artifactsKind = "list"
        /\ ex[e].finalOutput.artifacts = <<>>
        /\ Where(e, IsFinished) # {}

\* the faults of the run and of the persistence of the turn
RunOrPersistenceFaults ==
    {"session", "getItems", "connect", "run", "translate", "stream", "completed",
     "addItems"}

(***************************************************************************)
(* C27: in every execution the judge is invoked at most once, by a run     *)
(* that is not streamed, with the full transcript: the resolved input      *)
(* followed by every item the runtime produced.  It is invoked only after  *)
(* the stream has been consumed to its end, the run has completed and,     *)
(* with a Session, addItems has finished; it is never invoked in an        *)
(* execution whose run or persistence faulted.                             *)
(***************************************************************************)
C27_JudgeOnceAfterRun ==
    \A e \in Execs :
        LET tr == Trace(e)
            x == ex[e]
        IN  /\ Cardinality(Where(e, IsJudge)) <= 1
            /\ x.fault \in RunOrPersistenceFaults => Where(e, IsJudge) = {}
            /\ \A j \in Where(e, IsJudge) :
                  /\ tr[j].items = x.input \o RunItems(e)
                  /\ tr[j].items = x.history
                  /\ Cardinality(Where(e, IsRun)) = 1
                  /\ \A i \in Where(e, IsRun) \cup Where(e, IsReceived) : i < j
                  /\ x.pc \notin {"awaitRun", "stream", "awaitCompleted", "awaitAddItems"}
                  /\ x.session # 0 =>
                        /\ \E i \in Where(e, IsAddItems) : i < j
                        /\ store[x.session] = x.sessionHistory \o Persisted(x)
                  /\ x.session = 0 => Where(e, IsAddItems) = {}

\* the judge was called in an execution with a Session that held an earlier
\* turn, after a run that produced items
C27_Witness ==
    \E e \in Execs :
        /\ Where(e, IsJudge) # {}
        /\ ex[e].session # 0
        /\ ex[e].sessionHistory # <<>>
        /\ Len(RunItems(e)) >= 1
        /\ Len(ex[e].history) > Len(ex[e].input)

\* the input the runtime was called with in execution e
RunInput(e) == Trace(e)[CHOOSE i \in Where(e, IsRun) : TRUE].items

\* turn f follows the successful turn e on the same context, with a Session
FollowsOn(e, f) ==
    /\ e < f
    /\ Returned(e)
    /\ ex[e].session # 0
    /\ ex[f].req.contextId = ex[e].req.contextId
    /\ Where(f, IsRun) # {}

(***************************************************************************)
(* C28: the input of the runtime is the items of the Session followed by   *)
(* the user items of the request, one per text part of the incoming        *)
(* message and in its order, when there is a Session, and the user items   *)
(* alone otherwise.  So for successful turns in sequence on one context,   *)
(* the input of a turn is the input of the turn before it, followed by the *)
(* items the runtime produced in that turn, followed by the user items of  *)
(* the new turn.                                                           *)
(***************************************************************************)
C28_RunInput ==
    /\ \A e \in Execs :
          Where(e, IsRun) # {} =>
              /\ Cardinality(Where(e, IsRun)) = 1
              /\ RunInput(e) =
                    (IF ex[e].session # 0 THEN ex[e].sessionHistory ELSE <<>>)
                      \o TextItems(ex[e].req.userMessage)
              /\ sessionProvider # "none" <=> ex[e].session # 0
    /\ \A e, f \in Execs :
          FollowsOn(e, f) =>
              /\ ex[f].session = ex[e].session
              /\ RunInput(f) =
                    RunInput(e) \o RunItems(e) \o TextItems(ex[f].req.userMessage)

\* the second turn ran on the context of the first, which had read an
\* earlier log from its Session and produced items; the two turns have
\* different user messages
C28_Witness ==
    \E e, f \in Execs :
        /\ FollowsOn(e, f)
        /\ ex[e].sessionHistory # <<>>
        /\ RunItems(e) # <<>>
        /\ ex[f].req.userMessage # ex[e].req.userMessage
        /\ Returned(f)

\* execution e runs with tool servers
HasServers(e) == Started(e) /\ hasMcp /\ mcpServers # <<>>

(***************************************************************************)
(* C29: with tool servers configured, connect() is started on all of them  *)
(* together, before any of them settles; the streaming run is invoked only *)
(* after connect() has succeeded on every configured server; and no run    *)
(* item is received or translated while a configured server has not been   *)
(* connected by this execution.                                            *)
(***************************************************************************)
C29_RunAfterAllConnected ==
    \A e \in Execs :
        HasServers(e) =>
            /\ \/ Where(e, IsConnect) = {}
               \/ \A s \in Configured : Cardinality(ConnectCallsOn(e, s)) = 1
            /\ Where(e, IsConnect) = {} => \A s \in Servers : ex[e].connSt[s] = "none"
            /\ \A i, j \in Where(e, IsConnect) :
                  \A k \in i..j : IsConnect(Trace(e)[k])
            /\ \A j \in Where(e, IsRun) \cup Where(e, IsReceived) \cup Where(e, IsTranslated) :
                  /\ \A s \in Configured : ex[e].connSt[s] = "ok"
                  /\ \A s \in Configured : \A i \in ConnectCallsOn(e, s) : i < j

\* an execution with NumServers servers translated a run item
C29_Witness ==
    \E e \in Execs :
        /\ HasServers(e)
        /\ Len(mcpServers) = NumServers
        /\ Where(e, IsTranslated) # {}
        /\ \A s \in Configured : ex[e].connSt[s] = "ok"

\* the faults of an execution before its run has completed
RunFaults == {"session", "getItems", "connect", "run", "translate", "stream", "completed"}

\* an execution that faulted before its run completed has not called
\* addItems; its Session holds the log read at the start, and is cached
NoAddItemsOnRunFault ==
    \A e \in Execs :
        ex[e].fault \in RunFaults =>
            /\ Where(e, IsAddItems) = {}
            /\ (ex[e].session # 0 /\ ex[e].fault # "getItems") =>
                  store[ex[e].session] = ex[e].sessionHistory
            /\ ex[e].session # 0 => sessions[ex[e].req.contextId] = ex[e].session

\* the log of a Session changes only when an addItems call succeeds, and a
\* cache entry, once set, stays
LogChangesByAddItems ==
    /\ \A k \in 1..Len(store) :
          store'[k] # store[k] =>
              \E e \in Execs : /\ ex[e].pc = "awaitAddItems"
                               /\ ex[e].session = k
                               /\ ex'[e].pc = "awaitJudge"
    /\ \A c \in Contexts : sessions[c] # 0 => sessions'[c] = sessions[c]

(***************************************************************************)
(* C30: an execution that faults before its run completes -- the session   *)
(* provider or getItems fails, a connect() fails, an item kind is not      *)
(* supported, or the runtime faults -- never calls addItems, so the log of *)
(* its Session is what it was before the execution; the cache entry made   *)
(* for its context is kept.                                                *)
(***************************************************************************)
C30_RunFaultLeavesSession == []NoAddItemsOnRunFault /\ [][LogChangesByAddItems]_vars

\* an execution is over with a fault of the translator; its Session, which
\* held an earlier turn, is in the cache
C30_Witness ==
    \E e \in Execs :
        /\ Done(e)
        /\ ex[e].fault = "translate"
        /\ ex[e].session # 0
        /\ store[ex[e].session] # <<>>
        /\ sessions[ex[e].req.contextId] = ex[e].session

\* execution e calls addItems in this step
CallsAddItems(e) == ex[e].pc = "awaitCompleted" /\ ex'[e].pc = "awaitAddItems"

\* the addItems call of execution e has succeeded
HasAppended(e) ==
    /\ ex[e].session # 0
    /\ Where(e, IsAddItems) # {}
    /\ ex[e].pc # "awaitAddItems"
    /\ ex[e].fault # "addItems"

\* sequence p is found in sequence s, in one piece
Within(p, s) ==
    \E k \in 0..(Len(s) - Len(p)) : SubSeq(s, k + 1, k + Len(p)) = p

(***************************************************************************)
(* C31 as claimed: for every interleaving of executions that share a       *)
(* Session, when an execution calls addItems the log of the Session is the *)
(* history the execution read with getItems: no other execution's turn    *)
(* was appended in between.                                                *)
(***************************************************************************)
C31_LogAsReadAtAppend ==
    [][\A e \in Execs :
          CallsAddItems(e) => store[ex[e].session] = ex[e].sessionHistory]_vars

\* no other execution on the Session of e has called addItems
NoOtherAppend(e) ==
    \A f \in Execs \ {e} : ex[f].session = ex[e].session => Where(f, IsAddItems) = {}

\* when e calls addItems the log begins with the history e read, and is
\* that history when no other execution has appended to the Session
LogExtendsRead ==
    \A e \in Execs :
        CallsAddItems(e) =>
            /\ Len(store[ex[e].session]) >= Len(ex[e].sessionHistory)
            /\ SubSeq(store[ex[e].session], 1, Len(ex[e].sessionHistory))
                  = ex[e].sessionHistory
            /\ NoOtherAppend(e) => store[ex[e].session] = ex[e].sessionHistory

\* the turn of every execution whose addItems succeeded is in the log
TurnsInLog ==
    \A e \in Execs :
        HasAppended(e) =>
            /\ Within(Persisted(ex[e]), store[ex[e].session])
            /\ \A f \in Execs \ {e} :
                  (HasAppended(f) /\ ex[f].session = ex[e].session) =>
                      Len(store[ex[e].session]) >=
                          Len(Persisted(ex[e])) + Len(Persisted(ex[f]))

(***************************************************************************)
(* C31: executions that share a Session are not serialised: another        *)
(* execution's turn may be appended between an execution's getItems and    *)
(* its addItems.  No turn is lost: when an execution calls addItems the    *)
(* log of the Session begins with the history it read, and is that history *)
(* when no other execution has appended to the Session; and the turn of    *)
(* every execution whose addItems succeeded is in the log, in one piece.   *)
(***************************************************************************)
C31_NoTurnLost == []TurnsInLog /\ [][LogExtendsRead]_vars

\* two executions read the same history from one Session and both appended
\* their turns, which differ
C31_Witness ==
    \E e, f \in Execs :
        /\ e # f
        /\ HasAppended(e) /\ HasAppended(f)
        /\ ex[e].session = ex[f].session
        /\ ex[e].sessionHistory = ex[f].sessionHistory
        /\ Persisted(ex[e]) # Persisted(ex[f])
        /\ Len(store[ex[e].session]) >
              Len(ex[e].sessionHistory) + Len(Persisted(ex[e]))

(***************************************************************************)
(* C32: within an execution close() is not called on a tool server while   *)
(* the connect() the execution started on that server is still in flight:  *)
(* the cleanup begins only when every connect() that was started has       *)
(* settled, also when the connect() of another server failed first.        *)
(***************************************************************************)
C32_NoCloseDuringConnect ==
    \A e \in Execs :
        \A s \in Configured :
            CloseCallsOn(e, s) # {} => ex[e].connSt[s] # "pending"

(***************************************************************************)
(* C33 as claimed: every status-update that carries a message has at least *)
(* one part, for every run item the translator accepts, tool calls with    *)
(* empty or absent arguments and function_call_result items with an output *)
(* that is neither text nor image included.                                *)
(***************************************************************************)
C33_MessagePartsNonEmpty ==
    \A e \in Execs :
        \A i \in Where(e, IsTranslated) : Trace(e)[i].ev.parts # <<>>

\* the number of parts the event for run item sev carries
PartsOf(sev) ==
    CASE sev.itemType = "tool_call_item" -> IF sev.arguments = <<>> THEN 0 ELSE 1
      [] sev.itemType = "tool_call_output_item" ->
            IF sev.output.type \in {"text", "image"} THEN 1 ELSE 0
      [] OTHER -> Len(OutputTexts(sev.content))

(***************************************************************************)
(* C33: a status-update for a message output carries at least one part,    *)
(* one per output_text fragment.  A status-update for a tool call carries  *)
(* one part when the arguments are a non-empty string and no part when     *)
(* they are empty or absent; one for a function_call_result carries one    *)
(* part when the output is text or an image and no part otherwise.         *)
(***************************************************************************)
C33_MessageParts ==
    \A e \in Execs :
        \A i \in Where(e, IsTranslated) :
            /\ i > 1 /\ IsReceived(Trace(e)[i - 1])
            /\ Len(Trace(e)[i].ev.parts) = PartsOf(Trace(e)[i - 1].sev)
            /\ IsMessageOutput(Trace(e)[i - 1].sev) => Len(Trace(e)[i].ev.parts) >= 1

\* an execution returned that published a tool-call status without parts
\* and a tool-call result without parts
C33_Witness ==
    \E e \in Execs :
        /\ Returned(e)
        /\ \A t \in {"tool-call", "tool-call-result"} :
              \E i \in Where(e, IsTranslated) :
                  Trace(e)[i].ev.mtype = t /\ Trace(e)[i].ev.parts = <<>>

\* an execution that is over returned after its final status and finished(),
\* or threw the fault of its try block; the close() of every configured
\* server has settled
EndsAfterCleanup ==
    \A e \in Execs :
        Done(e) =>
            /\ ex[e].result = "returned" =>
                  /\ Where(e, IsFinal) # {} /\ Where(e, IsFinished) # {}
                  /\ \A i \in Where(e, IsFinal), j \in Where(e, IsFinished) : i < j
            /\ ex[e].result # "returned" =>
                  ex[e].result \in FaultSteps \cup {"finished"}
            /\ hasMcp =>
                  \A s \in Configured :
                      /\ CloseCallsOn(e, s) # {}
                      /\ ex[e].closeSt[s] \in {"closed", "failed"}

(***************************************************************************)
(* C34: when the stream of the runtime is finite and every external call   *)
(* -- session provider, getItems, connect, the streaming run, addItems,    *)
(* the judge run, close -- returns or fails, every execute call ends: it   *)
(* returns after the final status and finished(), or it throws a fault;    *)
(* in both cases after the cleanup of the configured servers is over.      *)
(***************************************************************************)
C34_ExecuteTerminates ==
    /\ []EndsAfterCleanup
    /\ \A e \in Execs : Started(e) ~> Done(e)

\* an execution with NumServers servers is over with a fault of the
\* runtime, after a close() failed
C34_Witness ==
    \E e \in Execs :
        /\ Done(e)
        /\ ex[e].result = "stream"
        /\ Len(mcpServers) = NumServers
        /\ \E s \in Configured : ex[e].closeSt[s] = "failed"
        /\ \A s \in Configured : ex[e].closeSt[s] \in {"closed", "failed"}

=============================================================================
